---- MODULE Spec2Model ----
(***************************************************************************)
(* State-machine model of the poco-verifier agent.                         *)
(*                                                                         *)
(*  - VerifierService (the task dispatcher): the work queue, the busy      *)
(*    flag, the polling timer, the polls whose fetch is pending and the    *)
(*    deferred processNextTask continuations.                              *)
(*  - CommitteeClient (the committee broadcaster): one broadcast call, the *)
(*    per-member operations it fans out to, their retries and the join.    *)
(*                                                                         *)
(* One step of the model is one turn of the Node.js event loop: a handler  *)
(* runs from the event that wakes it (a timer, an I/O completion, a call)  *)
(* up to the next await that really suspends.  Continuations that are      *)
(* resumed by promise resolution only (microtasks) belong to the step that *)
(* resolved the promise.                                                   *)
(***************************************************************************)
EXTENDS Integers, Sequences, FiniteSets, Bags, TLC

\* ---------------------------------------------------------------- bounds
NumTasks   == 2    \* task ids the task source can return
MaxFetches == 2    \* fetches issued to the task source in one behaviour
MaxStarts  == 2    \* start() calls in one behaviour

TaskIds == 1 .. NumTasks
NoTimer == "null"   \* pollingTimer = null
Timer   == "timer"  \* pollingTimer = the handle setInterval returned

\* What one fetch can return: nothing, one task, or two tasks (the same id
\* twice included).
FetchResults ==
  {<<>>} \cup {<<a>> : a \in TaskIds} \cup {<<a, b>> : a \in TaskIds, b \in TaskIds}

\* How contract.query_assigned_tasks can settle: with a list of tasks, or
\* with an error.
FetchResponses(results) ==
  {[ok |-> TRUE, tasks |-> f] : f \in results}
    \cup {[ok |-> FALSE, tasks |-> <<>>]}

Range(s) == {s[i] : i \in 1 .. Len(s)}

\* private readonly MEMBERS_UPDATE_INTERVAL = 5 * 60 * 1000
MEMBERS_UPDATE_INTERVAL == 5 * 60 * 1000

\* the getTaskStatus call when none has been made, or its locals are gone
NoQuery == [st |-> "idle"]
\* getTaskStatus is suspended: at a GET, at the backoff of a member's
\* withRetry, at the backoff of its own withRetry
QueryRunning == {"get", "innerWait", "outerWait"}
\* getTaskStatus has not returned
NoResult == [kind |-> "none"]

\* no task run has started; verifyTask has made no proof
NoTask == [task_id |-> "none"]
NoProof == [task_id |-> "none"]

MaxRetryBudget == 4  \* largest maxRetries a withRetry call by itself is given
MaxDownloads == 3    \* downloadFile calls made by themselves in one behaviour

\* the content identifiers asked for and the file names they are stored under
Cids == {"QmA", "QmB"}
FileNames == {"source", "result"}

\* no downloadFile call was made yet; holds names the content each file of
\* the working directory was written from
NoRetrieval ==
  [st |-> "idle", cid |-> "", name |-> "", path |-> "",
   holds |-> [n \in FileNames |-> ""]]

\* the initial delays such a call is given, in ms: none, those of the call
\* sites, one below the cap, the cap, one above it
InitialDelays == {0, 1000, 2000, 20000, 30000, 40000}

\* no withRetry call by itself has been made
NoRetryCall ==
  [st |-> "idle", maxRetries |-> 0, initialDelay |-> 0, retries |-> 0,
   delay |-> 0, outcomes |-> <<>>, waits |-> <<>>]

\* ------------------------------------------------------ Number arithmetic
\* A JavaScript Number is a binary floating-point value: sign, a significand
\* of a fixed number of bits, an exponent; every +, - and / rounds its exact
\* result to the nearest such value, ties to the even significand.  The
\* model keeps this arithmetic with a shorter significand.  A value is
\* [m, e], standing for m * 2^e, with m odd or zero.

MantissaBits == 4   \* bits of the significand (53 in the program)
ScenarioBits == 20  \* the same, for the run of the end-to-end scenario

RECURSIVE Pow2(_)
Pow2(n) == IF n = 0 THEN 1 ELSE 2 * Pow2(n - 1)

Abs(x) == IF x < 0 THEN 0 - x ELSE x

Zero == [m |-> 0, e |-> 0]

RECURSIVE Normalised(_, _)
Normalised(m, e) ==
  IF m = 0 THEN Zero
  ELSE IF m % 2 = 0 THEN Normalised(m \div 2, e + 1)
  ELSE [m |-> m, e |-> e]

\* num / den brought into the range of a significand of the given number
\* of bits, by powers of two: num / den * 2^k is the value it started as
RECURSIVE Scaled(_, _, _, _)
Scaled(bits, num, den, k) ==
  IF num < Pow2(bits - 1) * den THEN Scaled(bits, 2 * num, den, k - 1)
  ELSE IF num >= Pow2(bits) * den THEN Scaled(bits, num, 2 * den, k + 1)
  ELSE [num |-> num, den |-> den, k |-> k]

\* the Number nearest to (a / b) * 2^e0, for integers a and b > 0, with a
\* significand of the given number of bits
RoundTo(bits, a, b, e0) ==
  IF a = 0 THEN Zero
  ELSE
    LET s == Scaled(bits, Abs(a), b, 0)
        q == s.num \div s.den
        r == s.num % s.den
        up == (2 * r > s.den) \/ (2 * r = s.den /\ q % 2 = 1)
        rounded == IF up THEN q + 1 ELSE q
    IN Normalised(IF a < 0 THEN 0 - rounded ELSE rounded, s.k + e0)

\* the stored score that shows rounding: large enough for the 10 subtracted
\* from it to fall between two Numbers
HighScore == RoundTo(MantissaBits, Pow2(MantissaBits + 4), 1, 0)

\* the scores of the end-to-end scenario: 92.0, 95.0, 97.0
ScenarioScores == {RoundTo(ScenarioBits, v, 1, 0) : v \in {92, 95, 97}}

\* an outcome of the VMAF tool: it failed, or it ran and its output gives
\* the mean
ToolFailed == [ran |-> FALSE, mean |-> Zero]
ToolRan(mean) == [ran |-> TRUE, mean |-> mean]

\* The surroundings of a run: the significand of its arithmetic, the
\* segment files the media tool may leave (the "first" so many of a fresh
\* directory, "any" of them where older files remain, or "all"),
\* the outcomes the VMAF tool may have, the contents a segment may have.
AnyWorld ==
  [bits |-> MantissaBits, segments |-> "first",
   tool |-> {ToolFailed, ToolRan(HighScore)}, bytes |-> {"b1"}]
EndToEndWorld ==
  [bits |-> ScenarioBits, segments |-> "all",
   tool |-> {ToolRan(v) : v \in ScenarioScores}, bytes |-> {"b1"}]
FingerprintWorld ==
  [bits |-> MantissaBits, segments |-> "first",
   tool |-> {ToolFailed, ToolRan(HighScore)}, bytes |-> {"b1", "b2"}]

\* ----------------------------------------------------------------- state
VARIABLES
  isProcessingTask,  \* VerifierService.isProcessingTask
  taskQueue,         \* VerifierService.taskQueue
  pollingTimer,      \* VerifierService.pollingTimer: NoTimer (null) or Timer
  running,           \* VerifierService.running
  activeTimers,      \* number of interval timers created and not cleared
  pendingPolls,      \* bag of pollTasks invocations suspended at the fetch
  activeRuns,        \* processNextTask invocations between the pop and finally
  pendingTimeouts,   \* setTimeout(() => processNextTask(), 0) not yet fired
  fetchCount,        \* fetches issued to the task source
  startCount,        \* start() calls that went past the running check
  lastOp,            \* history: the handler that made the last step
  lastFetched,       \* history: the fetch result merged by the last step
  lastOutcome        \* history: the outcome of the run ended by the last step

\* A queue entry is a task object: task_id is TaskDataWithRole.task.task_id.
\* A history field rides along, which the code never reads: ord, the entry's
\* rank by time of arrival among the entries queued (1 = the oldest).

dispatcherVars ==
  <<isProcessingTask, taskQueue, pollingTimer, running, activeTimers,
    pendingPolls, activeRuns, pendingTimeouts, fetchCount, startCount,
    lastOp, lastFetched, lastOutcome>>

VARIABLES
  committeeMembers,  \* CommitteeClient.committeeMembers (the account ids)
  callKind,          \* which broadcast method is being called
  callState,         \* "idle", "running" (awaiting allSettled) or "returned"
  ops,               \* the per-member operations of the call (last: the
                     \*   outcome of the request that settled the operation)
  successCount,      \* successCount of the call, once it is computed
  callResult,        \* what the call returned, once it has returned
  acked,             \* history: members that answered 202 during the call
  sent,              \* the proof, or array of proofs, the call was handed
  posts,             \* the body the call posts to each member
  membersAge,        \* Date.now() - lastMembersUpdateTime, in ms, up to the
                     \*   update interval (which stands for "or more")
  lastRefresh,       \* history: what updateCommitteeMembers did in the last
                     \*   step: "none" (not called), "kept" or "installed"
  statusQuery,       \* the getTaskStatus call: where its two nested
                     \*   withRetry loops stand
  queried,           \* history: the member of each GET the call has issued
  queryResult,       \* what getTaskStatus returned, once it has returned
  retryCall          \* a withRetry call by itself: its locals, and the
                     \*   history of its invocations and waits

broadcastVars ==
  <<callKind, callState, ops, successCount, callResult, acked, sent, posts>>

queryVars == <<statusQuery, queried, queryResult>>

committeeVars ==
  <<committeeMembers, broadcastVars, membersAge, lastRefresh, queryVars,
    retryCall>>

VARIABLES
  pc,                \* where the task run stands: the await it is suspended at
  taskData,          \* the TaskData handed to verifyTask
  allTimestamps,     \* verifyTask: allTimestamps
  sourceGopMap,      \* verifyTask: sourceGopMap (marker -> segment number)
  resultGopMap,      \* verifyTask: resultGopMap
  next,              \* verifyTask: position of the scoring loop in selected_gops
  gopScores,         \* verifyTask: gopScores
  proof,             \* verifyTask: proof, or NoProof
  returned,          \* what verifyTask returned: "none", "proof" or "null"
  downloads,         \* history: downloadFile calls of the run
  splits,            \* history: splitVideoIntoGops calls of the run
  ledgerSubmissions, \* history: the proofs handed to submitVerifierProof
  committeeCalls,    \* history: the broadcast calls made, with their proofs
  files,             \* the files of the working directory (assets, segments)
  fetches,           \* history: requests sent to the content store
  vmafCalls,         \* history: the calculateVmafScore calls and their results
  world,             \* what the surroundings of the run can do (see Worlds)
  retrieval,         \* a downloadFile(cid, fileName) call made by itself
  ledgerResults      \* history: how each submitVerifierProof call settled

pipelineVars ==
  <<pc, taskData, allTimestamps, sourceGopMap, resultGopMap, next, gopScores,
    proof, returned, downloads, splits, ledgerSubmissions, committeeCalls,
    files, fetches, vmafCalls, world, retrieval, ledgerResults>>

VARIABLES
  mainPc,            \* main(): the await it is suspended at, or where it ended
  initialized,       \* history: the initialize() calls settled, and how
  exitCode           \* the code process.exit was called with, "none" before

processVars == <<mainPc, initialized, exitCode>>

vars == <<dispatcherVars, committeeVars, pipelineVars, processVars>>

QueueIds(q) == {q[i].task_id : i \in 1 .. Len(q)}

\* ------------------------------------------------------- pure operations

\* Mutant of Enqueue: the fetched tasks are compared with the queue as it was
\* before the loop, so an id fetched twice is pushed twice.
EnqueueAgainstSnapshot(q, fetched) ==
  q \o SelectSeq(fetched, LAMBDA t : t.task_id \notin QueueIds(q))

\* pollTasks, the merge loop: push every fetched task whose id is not in the
\* queue at that moment (the queue as already extended by this loop).
RECURSIVE Enqueue(_, _)
Enqueue(q, fetched) ==
  IF fetched = <<>> THEN q
  ELSE IF \E i \in 1 .. Len(q) : q[i].task_id = Head(fetched).task_id
       THEN Enqueue(q, Tail(fetched))
       ELSE Enqueue(Append(q, Head(fetched)), Tail(fetched))

\* Mutant of pollTasksSkips: the early return is missing.
pollTasksNeverSkips(busy) == FALSE

\* pollTasks, first statement: the poll returns at once while a task is in
\* flight.
pollTasksSkips(busy) == busy

\* the interval callback polls only when no task is in flight
intervalCallbackPolls(busy) == ~busy

\* pollTasks, after the merge: start processing?
pollTasksTriggers(q, busy) == Len(q) > 0 /\ ~busy

\* Mutant of processNextTaskReturns: the busy flag is not tested.
processNextTaskReturnsOnEmptyOnly(busy, q) == Len(q) = 0

\* processNextTask, first statement: return without popping.
processNextTaskReturns(busy, q) == busy \/ Len(q) = 0

\* Mutant of Shift: taskQueue.pop(), the last entry.
PopLast(q) == [task |-> q[Len(q)], rest |-> SubSeq(q, 1, Len(q) - 1)]

\* taskQueue.shift(): the entry popped and the queue left.
Shift(q) == [task |-> Head(q), rest |-> Tail(q)]

\* Mutant of FinallyBusy: the flag is cleared at the end of the try block, not
\* in finally, so an exception leaves it set.
BusyClearedInTryOnly(outcome) == outcome = "exception"

\* processNextTask, finally: the value given to the busy flag.
FinallyBusy(outcome) == FALSE

\* processNextTask, finally: the queue after the run (nothing is put back).
FinallyQueue(q, task, outcome) == q

\* Mutant of FinallySchedules: no continuation is scheduled.
NeverSchedules(q) == FALSE

\* processNextTask, finally: schedule the deferred continuation?
FinallySchedules(q) == Len(q) > 0

\* How a run can end: verifyTask returned a proof and the committee send
\* returned true or false, verifyTask returned null, or an awaited call
\* rejected.
RunOutcomes == {"proof_sent", "send_false", "no_proof", "exception"}

\* ------------------------------------------------------------- fragments

\* start(), after `await this.pollTasks()`: this.pollingTimer = setInterval().
\* A handle that was stored before is overwritten; its timer stays active.
InstallTimer ==
  /\ activeTimers' = activeTimers + 1
  /\ pollingTimer' = Timer

KeepTimer == UNCHANGED <<activeTimers, pollingTimer>>

\* pollTasks reaching `await queryAssignedTasks(true)`.
IssueFetch(origin) ==
  /\ fetchCount < MaxFetches
  /\ fetchCount' = fetchCount + 1
  /\ pendingPolls' = pendingPolls (+) SetToBag({[origin |-> origin]})

\* the entries of q that stay queued when the entry of rank ord leaves
Reranked(q, ord) ==
  [i \in 1 .. Len(q) |->
     IF q[i].ord > ord THEN [q[i] EXCEPT !.ord = @ - 1] ELSE q[i]]

\* processNextTask from the flag assignment to the await of verifyTask:
\* q and polls are the queue and the pending polls as the caller left them;
\* awaiter is who awaits the returned promise.
BeginRun(q, polls, awaiter) ==
  LET task == Shift(q).task IN
  /\ isProcessingTask' = TRUE
  /\ taskQueue' = Reranked(Shift(q).rest, task.ord)
  /\ activeRuns' = activeRuns \cup
       {[task_id |-> task.task_id, ord |-> task.ord, awaiter |-> awaiter,
         slot |-> Cardinality(activeRuns) + 1]}
  /\ pendingPolls' = polls

\* ---------------------------------------------------------------- actions

\* the body of VerifierService.start(), up to its first await
StartService ==
  /\ IF running
     THEN /\ lastOp' = "start_ignored"
          /\ UNCHANGED <<running, pendingPolls, fetchCount, startCount>>
          /\ KeepTimer
     ELSE /\ startCount < MaxStarts
          /\ startCount' = startCount + 1
          /\ running' = TRUE
          /\ IF pollTasksSkips(isProcessingTask)
             THEN /\ lastOp' = "start_poll_skipped"
                  /\ UNCHANGED <<pendingPolls, fetchCount>>
                  /\ InstallTimer
             ELSE /\ lastOp' = "start_poll"
                  /\ IssueFetch("start")
                  /\ KeepTimer
  /\ lastFetched' = <<>>
  /\ lastOutcome' = "none"
  /\ UNCHANGED <<isProcessingTask, taskQueue, activeRuns, pendingTimeouts>>

\* VerifierService.start()
start ==
  /\ UNCHANGED <<committeeVars, pipelineVars, processVars>>
  /\ StartService

\* the body of VerifierService.stop()
StopService ==
  /\ IF pollingTimer # NoTimer
     THEN /\ activeTimers' = activeTimers - 1
          /\ pollingTimer' = NoTimer
     ELSE UNCHANGED <<activeTimers, pollingTimer>>
  /\ running' = FALSE
  /\ lastOp' = "stop"
  /\ lastFetched' = <<>>
  /\ lastOutcome' = "none"
  /\ UNCHANGED <<isProcessingTask, taskQueue, pendingPolls, activeRuns,
                 pendingTimeouts, fetchCount, startCount>>

\* VerifierService.stop()
stop ==
  /\ UNCHANGED <<committeeVars, pipelineVars, processVars>>
  /\ StopService

\* the setInterval callback of start(): one tick of an active timer
intervalCallback ==
  /\ UNCHANGED <<committeeVars, pipelineVars, processVars>>
  /\ activeTimers > 0
  /\ IF intervalCallbackPolls(isProcessingTask)
        /\ ~pollTasksSkips(isProcessingTask)
     THEN /\ IssueFetch("tick")
          /\ lastOp' = "tick_poll"
     ELSE /\ UNCHANGED <<pendingPolls, fetchCount>>
          /\ lastOp' = "tick_skipped"
  /\ KeepTimer
  /\ lastFetched' = <<>>
  /\ lastOutcome' = "none"
  /\ UNCHANGED <<isProcessingTask, taskQueue, running, activeRuns,
                 pendingTimeouts, startCount>>

\* Mutant of queryAssignedTasks: its catch returns a list with a task.
queryAssignedTasksOnError(response) ==
  IF response.ok THEN response.tasks ELSE <<1>>

\* queryAssignedTasks: the tasks the contract returned, and [] from its
\* catch when the call failed
queryAssignedTasks(response) ==
  IF response.ok THEN response.tasks ELSE <<>>

\* pollTasks resumed by the result of queryAssignedTasks
pollTasksResume ==
  \E p \in BagToSet(pendingPolls), response \in FetchResponses(FetchResults) :
    LET fetched == queryAssignedTasks(response)
        tasks  == [i \in 1 .. Len(fetched) |->
                     [task_id |-> fetched[i], ord |-> 0]]
        merged == Enqueue(taskQueue, tasks)
        \* history: the entries pushed get the ranks after those queued
        q1     == [i \in 1 .. Len(merged) |->
                     IF merged[i].ord = 0
                     THEN [merged[i] EXCEPT !.ord =
                            Len(taskQueue)
                              + Cardinality({j \in 1 .. i : merged[j].ord = 0})]
                     ELSE merged[i]]
        polls1 == pendingPolls (-) SetToBag({p})
    IN
    /\ UNCHANGED <<committeeVars, pipelineVars, processVars>>
    /\ lastFetched' = fetched
    /\ lastOutcome' = IF response.ok THEN "none" ELSE "fetch_failed"
    /\ IF pollTasksTriggers(q1, isProcessingTask)
          /\ ~processNextTaskReturns(isProcessingTask, q1)
       THEN /\ BeginRun(q1, polls1, p.origin)
            /\ KeepTimer
            /\ lastOp' = "poll_started_run"
       ELSE /\ taskQueue' = q1
            /\ pendingPolls' = polls1
            /\ IF p.origin = "start" THEN InstallTimer ELSE KeepTimer
            /\ lastOp' = "poll_merged"
            /\ UNCHANGED <<isProcessingTask, activeRuns>>
    /\ UNCHANGED <<running, pendingTimeouts, fetchCount, startCount>>

\* processNextTask resumed when its awaits have settled (verifyTask, then the
\* committee send if there is a proof): catch, finally, and what the awaiting
\* caller does once the promise settles.
processNextTaskResumes ==
  \E r \in activeRuns, outcome \in RunOutcomes :
    /\ UNCHANGED <<committeeVars, pipelineVars, processVars>>
    /\ isProcessingTask' = FinallyBusy(outcome)
    /\ activeRuns' = activeRuns \ {r}
    /\ taskQueue' = FinallyQueue(taskQueue, r, outcome)
    /\ pendingTimeouts' =
         IF FinallySchedules(taskQueue') THEN pendingTimeouts + 1
         ELSE pendingTimeouts
    /\ IF r.awaiter = "start" THEN InstallTimer ELSE KeepTimer
    /\ lastOp' = "run_ended"
    /\ lastOutcome' = outcome
    /\ lastFetched' = <<>>
    /\ UNCHANGED <<running, pendingPolls, fetchCount, startCount>>

\* setTimeout(() => this.processNextTask(), 0) fires
timeoutCallback ==
  /\ UNCHANGED <<committeeVars, pipelineVars, processVars>>
  /\ pendingTimeouts > 0
  /\ pendingTimeouts' = pendingTimeouts - 1
  /\ IF processNextTaskReturns(isProcessingTask, taskQueue)
     THEN /\ lastOp' = "timeout_returned"
          /\ UNCHANGED <<isProcessingTask, taskQueue, activeRuns, pendingPolls>>
     ELSE /\ lastOp' = "timeout_started_run"
          /\ BeginRun(taskQueue, pendingPolls, "timeout")
  /\ KeepTimer
  /\ lastFetched' = <<>>
  /\ lastOutcome' = "none"
  /\ UNCHANGED <<running, fetchCount, startCount>>

\* ---------------------------------------------------------- specification
Init ==
  /\ isProcessingTask = FALSE
  /\ taskQueue = <<>>
  /\ pollingTimer = NoTimer
  /\ running = FALSE
  /\ activeTimers = 0
  /\ pendingPolls = EmptyBag
  /\ activeRuns = {}
  /\ pendingTimeouts = 0
  /\ fetchCount = 0
  /\ startCount = 0
  /\ lastOp = "constructed"
  /\ lastFetched = <<>>
  /\ lastOutcome = "none"
  /\ committeeMembers = <<>>
  /\ callKind = "none"
  /\ callState = "idle"
  /\ ops = <<>>
  /\ successCount = 0
  /\ callResult = FALSE
  /\ acked = {}
  /\ sent = NoProof
  /\ posts = <<>>
  /\ membersAge = MEMBERS_UPDATE_INTERVAL
  /\ lastRefresh = "none"
  /\ statusQuery = NoQuery
  /\ queried = <<>>
  /\ queryResult = NoResult
  /\ retryCall = NoRetryCall
  /\ pc = "idle"
  /\ taskData = NoTask
  /\ allTimestamps = <<>>
  /\ sourceGopMap = <<>>
  /\ resultGopMap = <<>>
  /\ next = 0
  /\ gopScores = <<>>
  /\ proof = NoProof
  /\ returned = "none"
  /\ downloads = 0
  /\ splits = 0
  /\ ledgerSubmissions = <<>>
  /\ committeeCalls = <<>>
  /\ files = {}
  /\ fetches = 0
  /\ vmafCalls = <<>>
  /\ world = AnyWorld
  /\ retrieval = NoRetrieval
  /\ ledgerResults = <<>>
  /\ mainPc = "initNear"
  /\ initialized = <<>>
  /\ exitCode = "none"

Next ==
  \/ start
  \/ stop
  \/ intervalCallback
  \/ pollTasksResume
  \/ processNextTaskResumes
  \/ timeoutCallback

Spec == Init /\ [][Next]_vars

\* ------------------------------------------------------ CommitteeClient

\* updateCommitteeMembers: the list it installs.
FixedMembers == <<"leader", "follower1", "follower2", "follower3">>

\* CommitteeMember.is_leader of the fixed list
is_leader(m) == m = "leader"

\* The ages told apart: the list was installed this instant, it is one
\* millisecond short of the interval, the interval or more has passed.
AgePoints == {0, MEMBERS_UPDATE_INTERVAL - 1, MEMBERS_UPDATE_INTERVAL}

\* now - this.lastMembersUpdateTime < this.MEMBERS_UPDATE_INTERVAL
Fresh(age) == age < MEMBERS_UPDATE_INTERVAL

\* Mutant of MembersKept: the list is installed anew at every call.
MembersNeverKept(members, fresh) == FALSE

\* updateCommitteeMembers: the early return
MembersKept(members, fresh) == fresh /\ Len(members) > 0

\* updateCommitteeMembers: a non-empty list younger than the update interval
\* is kept, otherwise the fixed list is installed.
updateCommitteeMembers(members, fresh) ==
  IF MembersKept(members, fresh) THEN members ELSE FixedMembers

\* updateCommitteeMembers as the step of a call: the list, the time of the
\* last update, and the record of what was done
RefreshMembers ==
  /\ committeeMembers' = updateCommitteeMembers(committeeMembers, Fresh(membersAge))
  /\ IF MembersKept(committeeMembers, Fresh(membersAge))
     THEN membersAge' = membersAge /\ lastRefresh' = "kept"
     ELSE membersAge' = 0 /\ lastRefresh' = "installed"

NoRefresh ==
  /\ lastRefresh' = "none"
  /\ UNCHANGED <<committeeMembers, membersAge>>


CallKinds == {"proof", "supplementary", "batch"}

\* What a member's request can come to: HTTP 202, another status that the
\* HTTP client hands back as a response, a network error, a timeout.
Accepted == "202"
Outcomes == {Accepted, "200", "error", "timeout"}

ProofMaxRetries == 2       \* sendProofToMember: withRetry(..., 2, 1000)
ProofInitialDelay == 1000
SuppMaxRetries == 3        \* sendSupplementaryProofToMember: withRetry(..., 3, 2000)
SuppInitialDelay == 2000
MaxDelay == 30000          \* withRetry: Math.min(delay * 1.5, 30000)

\* Mutant of MaxRetriesOf: the budget of sendProofToMember for every kind.
ProofBudgetForAll(kind) == ProofMaxRetries

MaxRetriesOf(kind) == IF kind = "proof" THEN ProofMaxRetries ELSE SuppMaxRetries
InitialDelayOf(kind) == IF kind = "proof" THEN ProofInitialDelay ELSE SuppInitialDelay

\* Mutant of WithRetry: the batch request is wrapped in withRetry as well.
WithRetryAlways(kind) == TRUE

\* sendProofToMember and sendSupplementaryProofToMember run their request
\* under withRetry; sendProofsBatchToMember has a plain try/catch.
WithRetry(kind) == kind # "batch"

\* the path of the member URL a request of the call goes to
PathOf(kind) ==
  CASE kind = "proof" -> "/proof"
    [] kind = "supplementary" -> "/proof/{taskId}/supplementary"
    [] kind = "batch" -> "/proofs/batch"

\* response.status === 202
IsAccepted(outcome) == outcome = Accepted

\* Mutant of RetriesExhausted: one retry too many.
RetriesExhaustedLate(retries, maxRetries) == retries > maxRetries

\* withRetry: if (retries >= maxRetries) throw error
RetriesExhausted(retries, maxRetries) == retries >= maxRetries

\* Mutant of NextDelay: the delay grows without the cap.
NextDelayUncapped(delay) == (delay * 3) \div 2

\* withRetry: delay = Math.min(delay * 1.5, 30000)
NextDelay(delay) == IF (delay * 3) \div 2 < MaxDelay THEN (delay * 3) \div 2 ELSE MaxDelay

\* Mutant of Joined: the call goes on as soon as one member succeeded
\* (Promise.any instead of Promise.allSettled).
JoinedOnFirstSuccess(o) ==
  \/ \E m \in DOMAIN o : o[m].st = "fulfilled" /\ o[m].value
  \/ \A m \in DOMAIN o : o[m].st = "fulfilled"

\* await Promise.allSettled(sendPromises): every member promise has settled.
Joined(o) == \A m \in DOMAIN o : o[m].st = "fulfilled"

\* results.filter((r) => r.status === "fulfilled" && r.value).length
SuccessCount(o) == Cardinality({m \in DOMAIN o : o[m].st = "fulfilled" /\ o[m].value})

\* Mutant of QuorumReached: more than one acknowledgement is asked for.
QuorumOfTwo(count) == count > 1

\* return successCount > 0
QuorumReached(count) == count > 0

\* A VerifierQosProof with every field of the interface; n tells the
\* values of two proofs apart.
SampleProof(n, gop_scores) ==
  [task_id |-> <<"task", n>>, gop_scores |-> gop_scores, id |-> <<"proof", n>>,
   verifier_id |-> <<"verifier", n>>, timestamp |-> <<"timestamp", n>>,
   video_specs |-> [codec |-> <<"codec", n>>, resolution |-> <<"resolution", n>>,
                    bitrate |-> <<"bitrate", n>>, framerate |-> <<"framerate", n>>],
   video_score |-> <<"video_score", n>>,
   audio_score |-> <<"audio_score", n>>, sync_score |-> <<"sync_score", n>>,
   signature |-> <<"signature", n>>]

\* a GopScore of a proof
SampleGop(n) ==
  [timestamp |-> <<"timestamp", n>>, vmaf_score |-> <<"vmaf_score", n>>,
   hash |-> <<"hash", n>>]

\* The proofs handed to the committee client: the first has two GOP
\* scores, the second a single one.
SampleProofs(count) ==
  {SampleProof(n, IF n = 1 THEN <<SampleGop(1), SampleGop(2)>>
                  ELSE <<SampleGop(n + 1)>>) : n \in 1 .. count}

\* an object handed over as a proof that lacks video_specs and gop_scores
MalformedProof(n) == [task_id |-> <<"task", n>>, id |-> <<"proof", n>>]

\* What a call of a kind is handed: a proof, or for the batch an array
Arguments(kind) ==
  IF kind = "batch"
  THEN {<<SampleProof(1, <<SampleGop(1), SampleGop(2)>>),
          SampleProof(2, <<SampleGop(3)>>)>>}
  ELSE SampleProofs(2)

\* What a caller that does not keep to the interface can hand over: an
\* object that is no proof, or an array with one
MalformedArguments(kind) ==
  IF kind = "batch"
  THEN {<<SampleProof(1, <<SampleGop(1), SampleGop(2)>>), MalformedProof(3)>>}
  ELSE {MalformedProof(3)}

\* convertToApiProofFormat reads proof.video_specs.codec and maps over
\* proof.gop_scores: a TypeError when either is missing
ConversionThrows(p) ==
  "video_specs" \notin DOMAIN p \/ "gop_scores" \notin DOMAIN p

\* the conversion of the argument of a call of the kind throws
ArgumentThrows(kind, argument) ==
  IF kind = "batch"
  THEN \E i \in DOMAIN argument : ConversionThrows(argument[i])
  ELSE ConversionThrows(argument)

\* Mutant of sendCatches: the error leaves the call.
sendRethrows == "thrown"

\* sendProofToCommittee, sendSupplementaryProof, sendProofsBatch:
\* catch (error) { ...; return false; }
sendCatches == "returned"

\* Mutant of convertToApiProofFormat: the scores are listed last first.
convertToApiProofFormatReversed(p) ==
  [taskId |-> p.task_id,
   verifierId |-> p.verifier_id,
   timestamp |-> p.timestamp,
   mediaSpecs |-> [codec |-> p.video_specs.codec,
                   resolution |-> p.video_specs.resolution,
                   bitrate |-> p.video_specs.bitrate,
                   framerate |-> p.video_specs.framerate],
   videoQualityData |->
     [overallScore |-> p.video_score,
      gopScores |-> [i \in DOMAIN p.gop_scores |->
                       LET gop == p.gop_scores[Len(p.gop_scores) + 1 - i] IN
                       [timestamp |-> gop.timestamp,
                        vmafScore |-> gop.vmaf_score,
                        hash |-> gop.hash]]],
   signature |-> p.signature]

\* convertToApiProofFormat(proof)
convertToApiProofFormat(p) ==
  [taskId |-> p.task_id,
   verifierId |-> p.verifier_id,
   timestamp |-> p.timestamp,
   mediaSpecs |-> [codec |-> p.video_specs.codec,
                   resolution |-> p.video_specs.resolution,
                   bitrate |-> p.video_specs.bitrate,
                   framerate |-> p.video_specs.framerate],
   videoQualityData |->
     [overallScore |-> p.video_score,
      gopScores |-> [i \in DOMAIN p.gop_scores |->
                       LET gop == p.gop_scores[i] IN
                       [timestamp |-> gop.timestamp,
                        vmafScore |-> gop.vmaf_score,
                        hash |-> gop.hash]]],
   signature |-> p.signature]

\* the operation of one member when the fan-out has called it: the first
\* request is out
FirstRequest(kind) ==
  [st |-> "posting", attempts |-> 1, retries |-> 0,
   delay |-> IF WithRetry(kind) THEN InitialDelayOf(kind) ELSE 0,
   value |-> FALSE, last |-> "none", path |-> PathOf(kind)]

\* sendProofToMember / sendSupplementaryProofToMember (withRetry and the final
\* catch) and sendProofsBatchToMember (no retry), at the settling of a request
AfterResponse(kind, op, outcome) ==
  IF IsAccepted(outcome)
  THEN [op EXCEPT !.st = "fulfilled", !.value = TRUE, !.last = outcome]
  ELSE IF ~WithRetry(kind)
  THEN [op EXCEPT !.st = "fulfilled", !.value = FALSE, !.last = outcome]
  ELSE IF RetriesExhausted(op.retries + 1, MaxRetriesOf(kind))
  THEN [op EXCEPT !.st = "fulfilled", !.value = FALSE, !.last = outcome,
                  !.retries = @ + 1]
  ELSE [op EXCEPT !.st = "waiting", !.retries = @ + 1]

\* the call resumes after allSettled, counts and returns
JoinAndReturn(o) ==
  IF callState = "running" /\ Joined(o)
  THEN /\ callState' = "returned"
       /\ successCount' = SuccessCount(o)
       /\ callResult' = QuorumReached(SuccessCount(o))
  ELSE UNCHANGED <<callState, successCount, callResult>>

\* CommitteeClient.initialize()
committeeInitialize ==
  /\ callState = "idle"
  /\ statusQuery = NoQuery
  /\ committeeMembers = <<>>
  /\ RefreshMembers
  /\ UNCHANGED <<broadcastVars, queryVars>>
  /\ UNCHANGED <<dispatcherVars, pipelineVars, processVars, retryCall>>

\* sendProofToCommittee / sendSupplementaryProof / sendProofsBatch, called
\* with the argument, up to `await Promise.allSettled(sendPromises)` or to
\* the return of its catch
BroadcastCall(kind, argument) ==
  LET members == updateCommitteeMembers(committeeMembers, Fresh(membersAge))
      apiProof == IF kind = "batch"
                  THEN [i \in DOMAIN argument |->
                          convertToApiProofFormat(argument[i])]
                  ELSE convertToApiProofFormat(argument)
  IN
  /\ sent' = argument
  /\ statusQuery.st \notin QueryRunning
  /\ RefreshMembers
  /\ statusQuery' = NoQuery /\ queried' = <<>> /\ queryResult' = NoResult
  /\ callKind' = kind
  /\ acked' = {}
  /\ IF Len(members) = 0
     THEN /\ callState' = "returned"
          /\ callResult' = FALSE
          /\ ops' = <<>>
          /\ posts' = <<>>
     ELSE IF ArgumentThrows(kind, argument)
     THEN /\ callState' = sendCatches
          /\ callResult' = FALSE
          /\ ops' = <<>>
          /\ posts' = <<>>
     ELSE /\ callState' = "running"
          /\ callResult' = FALSE
          /\ ops' = [m \in Range(members) |-> FirstRequest(kind)]
          /\ posts' = [m \in Range(members) |-> apiProof]
  /\ successCount' = 0
  /\ UNCHANGED <<dispatcherVars, pipelineVars, processVars, retryCall>>

\* a broadcast method is called with a proof (the batch: with proofs)
sendToCommittee ==
  /\ callState # "running"
  /\ \E kind \in CallKinds : \E argument \in Arguments(kind) :
       BroadcastCall(kind, argument)

\* a broadcast method is called with an argument that is no proof
sendMalformedToCommittee ==
  /\ callState # "running"
  /\ \E kind \in CallKinds : \E argument \in MalformedArguments(kind) :
       BroadcastCall(kind, argument)

\* the request a member operation is awaiting settles
memberResponds ==
  \E m \in DOMAIN ops, outcome \in Outcomes :
    /\ ops[m].st = "posting"
    /\ ops' = [ops EXCEPT ![m] = AfterResponse(callKind, @, outcome)]
    /\ acked' = IF outcome = Accepted THEN acked \cup {m} ELSE acked
    /\ JoinAndReturn(ops')
    /\ NoRefresh
    /\ UNCHANGED <<callKind, sent, posts, queryVars>>
    /\ UNCHANGED <<dispatcherVars, pipelineVars, processVars, retryCall>>

\* withRetry: the backoff delay of a member operation has elapsed; the delay
\* is stretched and the operation is called again
retryTimerFires ==
  \E m \in DOMAIN ops :
    /\ ops[m].st = "waiting"
    /\ ops' = [ops EXCEPT ![m] = [@ EXCEPT !.st = "posting",
                                           !.attempts = @ + 1,
                                           !.delay = NextDelay(@)]]
    /\ NoRefresh
    /\ UNCHANGED <<callKind, callState, successCount, callResult, acked, sent,
                   posts>>
    /\ UNCHANGED queryVars
    /\ UNCHANGED <<dispatcherVars, pipelineVars, processVars, retryCall>>

\* ------------------------------------------- CommitteeClient.getTaskStatus

\* What a GET of a member's status can come to: 200 with a body (data that
\* the test of response.data lets through), a 2xx response without one
\* (another status, or data that is empty or falsy), a network or HTTP
\* error, a timeout.
StatusOutcomes == {"200+body", "200", "error", "timeout"}

StatusMaxRetries == 2      \* getTaskStatusFromMember: withRetry(..., 2, 1000)
StatusInitialDelay == 1000
QueryMaxRetries == 2       \* getTaskStatus: withRetry(..., 2, 1000)
QueryInitialDelay == 1000

\* Mutant of HasStatus: the body is not looked at.
AnyOkHasStatus(outcome) == outcome \in {"200+body", "200"}

\* response.status === 200 && response.data
HasStatus(outcome) == outcome = "200+body"

Leaders(members) == SelectSeq(members, is_leader)
Followers(members) == SelectSeq(members, LAMBDA m : ~is_leader(m))

\* Mutant of PassOrder: the followers are asked before the leader.
FollowersFirst(members) ==
  Followers(members) \o
    (IF Len(Leaders(members)) > 0 THEN <<Leaders(members)[1]>> ELSE <<>>)

\* The members one pass of getTaskStatus asks, in order: the first member
\* flagged as leader, if there is one, then the members not flagged, in the
\* order of the cached list.
PassOrder(members) ==
  (IF Len(Leaders(members)) > 0 THEN <<Leaders(members)[1]>> ELSE <<>>)
    \o Followers(members)

\* Mutant of getTaskStatusFails: the error of the last retry is rethrown.
getTaskStatusThrows == [kind |-> "thrown"]

\* getTaskStatus: .catch((error) => { ...; return null; })
getTaskStatusFails == [kind |-> "null"]

\* One pass of getTaskStatus (the function handed to withRetry) from its
\* start to its first GET: the list is updated if due, an empty list ends
\* the call with null, otherwise the first member of the pass is asked.
BeginPass(log, outerRetries, outerDelay) ==
  /\ RefreshMembers
  /\ IF Len(committeeMembers') = 0
     THEN /\ statusQuery' = [st |-> "returned"]
          /\ queryResult' = [kind |-> "null"]
          /\ queried' = log
     ELSE LET first == PassOrder(committeeMembers')[1] IN
          /\ statusQuery' = [st |-> "get", outerRetries |-> outerRetries,
                             outerDelay |-> outerDelay, pos |-> 1,
                             retries |-> 0, delay |-> StatusInitialDelay,
                             last |-> "none"]
          /\ queried' = Append(log, [member |-> first, pass |-> outerRetries + 1])
          /\ queryResult' = NoResult

\* getTaskStatus(taskId) is called
getTaskStatus ==
  /\ callState # "running"
  /\ statusQuery.st \notin QueryRunning
  /\ callKind' = "none" /\ callState' = "idle" /\ ops' = <<>>
  /\ successCount' = 0 /\ callResult' = FALSE /\ acked' = {}
  /\ sent' = NoProof /\ posts' = <<>>
  /\ BeginPass(<<>>, 0, QueryInitialDelay)
  /\ UNCHANGED <<dispatcherVars, pipelineVars, processVars, retryCall>>

\* the GET that getTaskStatusFromMember is awaiting settles: the member's
\* withRetry returns the body or schedules a retry or gives up (null), and
\* on null getTaskStatus moves to the next member or, after the last one,
\* throws into its own withRetry
statusResponds ==
  \E outcome \in StatusOutcomes :
    LET q == statusQuery
        order == PassOrder(committeeMembers)
    IN
    /\ q.st = "get"
    /\ IF HasStatus(outcome)
       THEN /\ statusQuery' = [q EXCEPT !.st = "returned", !.last = outcome]
            /\ queryResult' = [kind |-> "status", from |-> order[q.pos]]
            /\ UNCHANGED queried
       ELSE IF ~RetriesExhausted(q.retries + 1, StatusMaxRetries)
       THEN /\ statusQuery' = [q EXCEPT !.st = "innerWait", !.retries = @ + 1,
                                        !.last = outcome]
            /\ UNCHANGED <<queried, queryResult>>
       ELSE IF q.pos < Len(order)
       THEN /\ statusQuery' = [q EXCEPT !.pos = @ + 1, !.retries = 0,
                                        !.delay = StatusInitialDelay,
                                        !.last = outcome]
            /\ queried' = Append(queried, [member |-> order[q.pos + 1],
                                           pass |-> q.outerRetries + 1])
            /\ UNCHANGED queryResult
       ELSE IF ~RetriesExhausted(q.outerRetries + 1, QueryMaxRetries)
       THEN /\ statusQuery' = [q EXCEPT !.st = "outerWait",
                                        !.outerRetries = @ + 1,
                                        !.retries = @ + 1, !.last = outcome]
            /\ UNCHANGED <<queried, queryResult>>
       ELSE /\ statusQuery' = [q EXCEPT !.st = "returned",
                                        !.outerRetries = @ + 1,
                                        !.retries = @ + 1, !.last = outcome]
            /\ queryResult' = getTaskStatusFails
            /\ UNCHANGED queried
    /\ NoRefresh
    /\ UNCHANGED broadcastVars
    /\ UNCHANGED <<dispatcherVars, pipelineVars, processVars, retryCall>>

\* withRetry: a backoff delay of the getTaskStatus call has elapsed: the
\* member is asked again, or the next pass starts
queryRetryTimerFires ==
  LET q == statusQuery IN
  /\ \/ /\ q.st = "innerWait"
        /\ statusQuery' = [q EXCEPT !.st = "get", !.delay = NextDelay(@)]
        /\ queried' = Append(queried,
                             [member |-> PassOrder(committeeMembers)[q.pos],
                              pass |-> q.outerRetries + 1])
        /\ NoRefresh
        /\ UNCHANGED queryResult
     \/ /\ q.st = "outerWait"
        /\ BeginPass(queried, q.outerRetries, NextDelay(q.outerDelay))
  /\ UNCHANGED broadcastVars
  /\ UNCHANGED <<dispatcherVars, pipelineVars, processVars, retryCall>>

\* Date.now() moves on
timePasses ==
  /\ \E a \in AgePoints : a > membersAge /\ membersAge' = a
  /\ lastRefresh' = "none"
  /\ UNCHANGED <<committeeMembers, broadcastVars, queryVars>>
  /\ UNCHANGED <<dispatcherVars, pipelineVars, processVars, retryCall>>

CommitteeNext ==
  \/ committeeInitialize
  \/ sendToCommittee
  \/ memberResponds
  \/ retryTimerFires
  \/ getTaskStatus
  \/ statusResponds
  \/ queryRetryTimerFires
  \/ timePasses

\* The committee client alone, from construction.
CommitteeSpec == Init /\ [][CommitteeNext]_vars

\* The committee client alone, with callers that hand over anything.
MisuseNext == CommitteeNext \/ sendMalformedToCommittee

MisuseSpec == Init /\ [][MisuseNext]_vars

\* ------------------------------------------- CommitteeClient.withRetry
\* withRetry(operation, maxRetries, initialDelay) is called with a budget
\* and an initial delay of InitialDelays, and invokes the operation.
withRetryCalled ==
  /\ retryCall.st = "idle"
  /\ \E maxRetries \in 0 .. MaxRetryBudget, initialDelay \in InitialDelays :
       retryCall' = [st |-> "operation", maxRetries |-> maxRetries,
                     initialDelay |-> initialDelay, retries |-> 0,
                     delay |-> initialDelay, outcomes |-> <<>>, waits |-> <<>>]
  /\ UNCHANGED <<committeeMembers, broadcastVars, membersAge, lastRefresh,
                 queryVars>>
  /\ UNCHANGED <<dispatcherVars, pipelineVars, processVars>>

\* the awaited operation settles: its result is returned, or its error is
\* counted and either rethrown or followed by the wait of `delay`
operationSettles ==
  /\ retryCall.st = "operation"
  /\ \E ok \in BOOLEAN :
       LET r == [retryCall EXCEPT !.outcomes = Append(@, ok)] IN
       IF ok
       THEN retryCall' = [r EXCEPT !.st = "returned"]
       ELSE IF RetriesExhausted(r.retries + 1, r.maxRetries)
       THEN retryCall' = [r EXCEPT !.st = "thrown", !.retries = @ + 1]
       ELSE retryCall' = [r EXCEPT !.st = "waiting", !.retries = @ + 1,
                                   !.waits = Append(@, r.delay)]
  /\ UNCHANGED <<committeeMembers, broadcastVars, membersAge, lastRefresh,
                 queryVars>>
  /\ UNCHANGED <<dispatcherVars, pipelineVars, processVars>>

\* the setTimeout of the wait fires: the delay is stretched and the
\* operation is invoked again
retryDelayElapses ==
  /\ retryCall.st = "waiting"
  /\ retryCall' = [retryCall EXCEPT !.st = "operation",
                                    !.delay = NextDelay(@)]
  /\ UNCHANGED <<committeeMembers, broadcastVars, membersAge, lastRefresh,
                 queryVars>>
  /\ UNCHANGED <<dispatcherVars, pipelineVars, processVars>>

RetryNext == withRetryCalled \/ operationSettles \/ retryDelayElapses

\* One call of withRetry, whatever its operation does.
RetrySpec == Init /\ [][RetryNext]_vars

\* -------------------------------------------- Number arithmetic of a run

\* the Number nearest to (a / b) * 2^e0 in the arithmetic of the run
RoundToNearest(a, b, e0) == RoundTo(world.bits, a, b, e0)

FromInteger(k) == RoundToNearest(k, 1, 0)

\* x + y
NumberAdd(x, y) ==
  LET e0 == IF x.e < y.e THEN x.e ELSE y.e IN
  RoundToNearest(x.m * Pow2(x.e - e0) + y.m * Pow2(y.e - e0), 1, e0)

\* x - y
NumberSub(x, y) == NumberAdd(x, [m |-> 0 - y.m, e |-> y.e])

\* x / n, for a count n
NumberDiv(x, n) == RoundToNearest(x.m, n, x.e)

\* ------------------------------------------- VerifierService.verifyTask

MaxSelected == 3    \* longest selected_gops of a task

\* keyframe timestamps (strings in the program)
Markers == {"0", "1.2"}

SeqsUpTo(S, n) == UNION {[1 .. k -> S] : k \in 0 .. n}

\* an optional array field of TaskData: undefined, or the array
Undefined == [present |-> FALSE, items |-> <<>>]
Defined(items) == [present |-> TRUE, items |-> items]

\* The TaskData a run can be handed.  "" stands for a locator that is
\* undefined or empty.
Tasks ==
  [task_id : {"t1"},
   source_ipfs : {"", "Qm-source"},
   result_ipfs : {"", "Qm-result"},
   selected_gops : {Undefined} \cup {Defined(g) : g \in SeqsUpTo(Markers, MaxSelected)},
   keyframe_timestamps : {Undefined, Defined(<<"0">>), Defined(<<"1.2">>)}]

\* if (!task.source_ipfs || !task.result_ipfs || !task.selected_gops)
TaskIncomplete(t) ==
  t.source_ipfs = "" \/ t.result_ipfs = "" \/ ~t.selected_gops.present

\* Mutant of NoGopSelected: the length is not looked at.
AnyGopListAccepted(t) == FALSE

\* if (!task.selected_gops.length)
NoGopSelected(t) == Len(t.selected_gops.items) = 0

\* for (const gopTimestamp of task.selected_gops)
\*   if (!allTimestamps.includes(gopTimestamp)) allTimestamps.push(gopTimestamp)
RECURSIVE PushMissing(_, _, _)
PushMissing(all, selected, i) ==
  IF i > Len(selected) THEN all
  ELSE PushMissing(IF selected[i] \in Range(all) THEN all
                   ELSE Append(all, selected[i]),
                   selected, i + 1)

\* Mutant of AllTimestampsOf: the selected markers are not pushed.
AllTimestampsAsDeclared(t) ==
  IF t.keyframe_timestamps.present THEN t.keyframe_timestamps.items
  ELSE t.selected_gops.items

\* const allTimestamps = task.keyframe_timestamps || task.selected_gops,
\* then the loop that pushes the selected ones it lacks
AllTimestampsOf(t) ==
  PushMissing(IF t.keyframe_timestamps.present
              THEN t.keyframe_timestamps.items
              ELSE t.selected_gops.items,
              t.selected_gops.items, 1)

\* timestamps[i] of the program (0-based), undefined outside the array
At(timestamps, i) ==
  IF i + 1 \in 1 .. Len(timestamps) THEN timestamps[i + 1] ELSE "undefined"

\* gopMap.set(key, segment)
MapSet(map, key, segment) == (key :> segment) @@ map

RECURSIVE MiddleSegments(_, _, _, _)
MiddleSegments(map, timestamps, existing, i) ==
  IF i >= Len(timestamps) THEN map
  ELSE MiddleSegments(IF i \in existing THEN MapSet(map, At(timestamps, i), i)
                      ELSE map,
                      timestamps, existing, i + 1)

\* Mutant of splitVideoIntoGops: the last segment is entered unasked.
splitVideoIntoGopsUnasked(timestamps, existing) ==
  LET first == IF 0 \in existing THEN MapSet(<<>>, At(timestamps, 0), 0)
               ELSE <<>>
      middle == MiddleSegments(first, timestamps, existing, 1)
  IN MapSet(middle, At(timestamps, Len(timestamps) - 1), Len(timestamps))

\* splitVideoIntoGops, when ffmpeg has run: the map it builds from the
\* segment files segment_<n> that exist (existing: the numbers n)
splitVideoIntoGops(timestamps, existing) ==
  LET first == IF 0 \in existing THEN MapSet(<<>>, At(timestamps, 0), 0)
               ELSE <<>>
      middle == MiddleSegments(first, timestamps, existing, 1)
      last == Len(timestamps)
  IN IF last \in existing
     THEN MapSet(middle, At(timestamps, Len(timestamps) - 1), last)
     ELSE middle

Ten == 10   \* vmaf_score: vmafScore - 10

\* Mutant of HasBothSegments: the candidate segment alone is asked for.
HasResultSegment(src, res, marker) == marker \in DOMAIN res

\* if (!sourceGopPath || !resultGopPath) continue
HasBothSegments(src, res, marker) ==
  marker \in DOMAIN src /\ marker \in DOMAIN res

\* the entry pushed for a marker that was scored
GopScore(marker, vmafScore, hash) ==
  [timestamp |-> marker, vmaf_score |-> NumberSub(vmafScore, FromInteger(Ten)),
   hash |-> hash]

\* gopScores.reduce((sum, score) => sum + score.vmaf_score, 0)
RECURSIVE Reduce(_, _, _)
Reduce(scores, i, sum) ==
  IF i > Len(scores) THEN sum
  ELSE Reduce(scores, i + 1, NumberAdd(sum, scores[i].vmaf_score))

\* Mutant of overallVideoScore: the sum is not divided.
overallVideoScoreUndivided(scores) == Reduce(scores, 1, Zero)

\* const overallVideoScore = gopScores.reduce(...) / gopScores.length
overallVideoScore(scores) == NumberDiv(Reduce(scores, 1, Zero), Len(scores))

\* Mutant of NothingScored: an empty score list goes on to the proof.
EmptyScoresAccepted(scores) == FALSE

\* if (gopScores.length === 0) throw
NothingScored(scores) == Len(scores) = 0

\* the files of the working directory: a downloaded asset, a segment
Asset(role) == [kind |-> "asset", role |-> role, n |-> 0]
Segment(role, n) == [kind |-> "segment", role |-> role, n |-> n]

\* Mutant of Cached: a file that exists is never found.
NeverCached(fs, role) == FALSE

\* downloadFile: if (fs.existsSync(outputPath)) return outputPath
Cached(fs, role) == Asset(role) \in fs

\* the sets of segment files segment_<n> ffmpeg may leave for a marker list
SegmentSets(w, timestamps) ==
  IF w.segments = "all" THEN {0 .. Len(timestamps)}
  ELSE IF w.segments = "first" THEN {0 .. k : k \in -1 .. Len(timestamps)}
  ELSE SUBSET (0 .. Len(timestamps))

\* Mutant of calculateVmafScore: the failure of the tool is rethrown.
calculateVmafScoreRethrows(tool) ==
  [thrown |-> ~tool.ran, value |-> tool.mean]

\* calculateVmafScore: pooled_metrics.vmaf.mean of the tool's output, and 0
\* from its catch when the tool failed
calculateVmafScore(tool) ==
  [thrown |-> FALSE, value |-> IF tool.ran THEN tool.mean ELSE Zero]

\* Mutant of calculateGopHash: the digest is taken of the path.
calculateGopHashOfPath(gopPath, bytes) == [alg |-> "sha256", of |-> gopPath]

\* calculateGopHash: the SHA-256 hex digest of the bytes read from gopPath
calculateGopHash(gopPath, bytes) == [alg |-> "sha256", of |-> bytes]

\* What fs.readFileSync(gopPath) can give: a failure, or the bytes of the
\* file, which are those an earlier read of the same file gave.
FileReads(segment) ==
  LET earlier == {vmafCalls[i].bytes : i \in
                    {j \in DOMAIN vmafCalls : /\ vmafCalls[j].segment = segment
                                              /\ vmafCalls[j].bytes # "none"}}
  IN {"none"} \cup (IF earlier = {} THEN world.bytes ELSE earlier)

\* the catch of verifyTask: the error is logged, null is returned, and
\* processNextTask has no proof to send
verifyTaskFails ==
  /\ pc' = "done"
  /\ returned' = "null"

\* the first selected marker at or after position i that has a segment on
\* both sides, 0 when there is none
NextScorable(selected, src, res, i) ==
  LET rest == {j \in i .. Len(selected) : HasBothSegments(src, res, selected[j])}
  IN IF rest = {} THEN 0 ELSE CHOOSE j \in rest : \A k \in rest : j <= k

\* The scoring loop from position i up to its next await: markers without
\* both segments are passed over; at a scorable one calculateVmafScore is
\* awaited; when the list is exhausted an empty score list throws, any
\* other goes on to getVideoSpecifications.
ScoringLoop(scores, src, res, i) ==
  LET j == NextScorable(taskData.selected_gops.items, src, res, i) IN
  /\ gopScores' = scores
  /\ IF j # 0
     THEN /\ next' = j
          /\ pc' = "vmaf"
          /\ UNCHANGED returned
     ELSE /\ next' = 0
          /\ IF NothingScored(scores)
             THEN verifyTaskFails
             ELSE /\ pc' = "specs"
                  /\ UNCHANGED returned

\* downloadMediaFiles from the download of the given role on, up to its
\* next await: a file that is in the working directory is not fetched;
\* with both files there, splitVideoIntoGops is called for the source.
Download(role, fs, calls, requests) ==
  IF role = "source" /\ ~Cached(fs, "source")
  THEN /\ pc' = "downloadSource"
       /\ downloads' = calls + 1
       /\ fetches' = requests + 1
       /\ splits' = 0
  ELSE IF ~Cached(fs, "result")
  THEN /\ pc' = "downloadResult"
       /\ downloads' = IF role = "source" THEN calls + 2 ELSE calls + 1
       /\ fetches' = requests + 1
       /\ splits' = 0
  ELSE /\ pc' = "splitSource"
       /\ downloads' = IF role = "source" THEN calls + 2 ELSE calls + 1
       /\ fetches' = requests
       /\ splits' = 1

\* processNextTask hands task t to verifyTask, which runs to its first
\* await: the checks of the task, the marker list, the first download.
BeginVerifyTask(t, w) ==
  /\ world' = w
  /\ taskData' = t
  /\ sourceGopMap' = <<>>
  /\ resultGopMap' = <<>>
  /\ next' = 0
  /\ gopScores' = <<>>
  /\ proof' = NoProof
  /\ ledgerSubmissions' = <<>>
  /\ ledgerResults' = <<>>
  /\ committeeCalls' = <<>>
  /\ vmafCalls' = <<>>
  /\ UNCHANGED files
  /\ IF TaskIncomplete(t) \/ NoGopSelected(t)
     THEN /\ verifyTaskFails
          /\ allTimestamps' = <<>>
          /\ downloads' = 0
          /\ fetches' = 0
          /\ splits' = 0
     ELSE /\ allTimestamps' = AllTimestampsOf(t)
          /\ Download("source", files, 0, 0)
          /\ returned' = "none"
  /\ UNCHANGED <<dispatcherVars, committeeVars, processVars, retrieval>>

\* a task of Tasks is verified, in surroundings that can do anything
verifyTaskStarts ==
  /\ pc = "idle"
  /\ \E t \in Tasks : BeginVerifyTask(t, AnyWorld)

\* the fetch of ipfsService.downloadFile settles: the source first, then
\* the result.
downloadSettles ==
  /\ pc \in {"downloadSource", "downloadResult"}
  /\ \E ok \in BOOLEAN :
       IF ~ok
       THEN /\ verifyTaskFails
            /\ UNCHANGED <<downloads, fetches, splits, files>>
       ELSE IF pc = "downloadSource"
       THEN /\ files' = files \cup {Asset("source")}
            /\ Download("result", files', downloads, fetches)
            /\ UNCHANGED returned
       ELSE /\ files' = files \cup {Asset("result")}
            /\ pc' = "splitSource"
            /\ splits' = 1
            /\ UNCHANGED <<returned, downloads, fetches>>
  /\ UNCHANGED <<taskData, allTimestamps, sourceGopMap, resultGopMap, next,
                 gopScores, proof, ledgerSubmissions, committeeCalls,
                 vmafCalls, world>>
  /\ UNCHANGED <<dispatcherVars, committeeVars, processVars, retrieval,
               ledgerResults>>

\* gopAnalyzer.splitVideoIntoGops settles: the source video first, then
\* the result video, after which the scoring loop begins.
splitSettles ==
  /\ pc \in {"splitSource", "splitResult"}
  /\ \/ /\ verifyTaskFails
        /\ UNCHANGED <<sourceGopMap, resultGopMap, next, gopScores, splits,
                       files>>
     \/ \E existing \in SegmentSets(world, allTimestamps) :
          LET map == splitVideoIntoGops(allTimestamps, existing) IN
          IF pc = "splitSource"
          THEN /\ sourceGopMap' = map
               /\ files' = files \cup {Segment("source", n) : n \in existing}
               /\ splits' = splits + 1
               /\ pc' = "splitResult"
               /\ UNCHANGED <<resultGopMap, next, gopScores, returned>>
          ELSE /\ resultGopMap' = map
               /\ files' = files \cup {Segment("result", n) : n \in existing}
               /\ ScoringLoop(<<>>, sourceGopMap, map, 1)
               /\ UNCHANGED <<sourceGopMap, splits>>
  /\ UNCHANGED <<taskData, allTimestamps, proof, downloads, fetches,
                 ledgerSubmissions, committeeCalls, vmafCalls, world>>
  /\ UNCHANGED <<dispatcherVars, committeeVars, processVars, retrieval,
               ledgerResults>>

\* calculateVmafScore settles; the hash of the result segment is computed,
\* which throws when the file cannot be read; the entry is pushed and the
\* loop goes on.
vmafSettles ==
  /\ pc = "vmaf"
  /\ LET marker == taskData.selected_gops.items[next]
         segment == resultGopMap[marker]
     IN \E tool \in world.tool, bytes \in FileReads(segment) :
          LET vmafScore == calculateVmafScore(tool) IN
          IF vmafScore.thrown
          THEN /\ vmafCalls' =
                    Append(vmafCalls,
                           [timestamp |-> marker, segment |-> segment,
                            ran |-> tool.ran, thrown |-> TRUE,
                            returned |-> Zero, bytes |-> "none"])
               /\ verifyTaskFails
               /\ UNCHANGED <<next, gopScores>>
          ELSE /\ vmafCalls' =
                    Append(vmafCalls,
                           [timestamp |-> marker, segment |-> segment,
                            ran |-> tool.ran, thrown |-> FALSE,
                            returned |-> vmafScore.value, bytes |-> bytes])
               /\ IF bytes = "none"
                  THEN /\ verifyTaskFails
                       /\ UNCHANGED <<next, gopScores>>
                  ELSE ScoringLoop(
                         Append(gopScores,
                                GopScore(marker, vmafScore.value,
                                         calculateGopHash(segment, bytes))),
                         sourceGopMap, resultGopMap, next + 1)
  /\ UNCHANGED <<taskData, allTimestamps, sourceGopMap, resultGopMap, proof,
                 downloads, fetches, splits, ledgerSubmissions, committeeCalls,
                 files, world>>
  /\ UNCHANGED <<dispatcherVars, committeeVars, processVars, retrieval,
               ledgerResults>>

\* the proof object verifyTask builds
VerifierQosProof(t, scores) ==
  [task_id |-> t.task_id,
   video_score |-> overallVideoScore(scores),
   gop_scores |-> scores]

\* getVideoSpecifications settles; the proof is built and handed to
\* nearConnection.submitVerifierProof.
specsSettles ==
  /\ pc = "specs"
  /\ \E ok \in BOOLEAN :
       IF ~ok
       THEN /\ verifyTaskFails
            /\ UNCHANGED <<proof, ledgerSubmissions>>
       ELSE /\ proof' = VerifierQosProof(taskData, gopScores)
            /\ ledgerSubmissions' = Append(ledgerSubmissions, proof')
            /\ pc' = "submit"
            /\ UNCHANGED returned
  /\ UNCHANGED <<taskData, allTimestamps, sourceGopMap, resultGopMap, next,
                 gopScores, downloads, fetches, splits, committeeCalls, files,
                 vmafCalls, world>>
  /\ UNCHANGED <<dispatcherVars, committeeVars, processVars, retrieval,
               ledgerResults>>

\* how the contract call of submitVerifierProof can settle
LedgerOutcomes == {"accepted", "rejected", "failed"}

\* submitVerifierProof: the result of the contract call, and false from its
\* catch when the call failed
submitVerifierProof(ledger) == ledger = "accepted"

\* Mutant of LedgerRefused: the result of the submission is not looked at.
LedgerResultIgnored(submitResult) == FALSE

\* verifyTask: if (!submitResult) throw
LedgerRefused(submitResult) == ~submitResult

\* submitVerifierProof settles: a falsy result throws, otherwise the proof
\* is sent to the committee.
submitSettles ==
  /\ pc = "submit"
  /\ \E ledger \in LedgerOutcomes :
       /\ ledgerResults' = Append(ledgerResults, ledger)
       /\ IF LedgerRefused(submitVerifierProof(ledger))
          THEN /\ verifyTaskFails
               /\ UNCHANGED committeeCalls
          ELSE /\ committeeCalls' =
                    Append(committeeCalls, [kind |-> "proof", proof |-> proof])
               /\ pc' = "send"
               /\ UNCHANGED returned
  /\ UNCHANGED <<taskData, allTimestamps, sourceGopMap, resultGopMap, next,
                 gopScores, proof, downloads, fetches, splits,
                 ledgerSubmissions, files, vmafCalls, world>>
  /\ UNCHANGED <<dispatcherVars, committeeVars, processVars, retrieval>>

\* cleanupFile(sourcePath), cleanupFile(resultPath), cleanupAllGops()
Cleaned(fs) ==
  {f \in fs : f.kind = "asset" /\ f.role \notin {"source", "result"}}

\* sendProofToCommittee settles inside verifyTask (its result is only
\* logged); the temporary files are removed and the proof is returned to
\* processNextTask, which sends it to the committee itself.
sendSettles ==
  /\ pc = "send"
  /\ \E isSupplementary \in BOOLEAN :
       committeeCalls' =
         Append(committeeCalls,
                [kind |-> IF isSupplementary THEN "supplementary" ELSE "proof",
                 proof |-> proof])
  /\ files' = Cleaned(files)
  /\ returned' = "proof"
  /\ pc' = "sendAgain"
  /\ UNCHANGED <<taskData, allTimestamps, sourceGopMap, resultGopMap, next,
                 gopScores, proof, downloads, fetches, splits,
                 ledgerSubmissions, vmafCalls, world>>
  /\ UNCHANGED <<dispatcherVars, committeeVars, processVars, retrieval,
               ledgerResults>>

\* the send of processNextTask settles; the task is over.
secondSendSettles ==
  /\ pc = "sendAgain"
  /\ pc' = "done"
  /\ UNCHANGED <<taskData, allTimestamps, sourceGopMap, resultGopMap, next,
                 gopScores, proof, returned, downloads, fetches, splits,
                 ledgerSubmissions, committeeCalls, files, vmafCalls, world>>
  /\ UNCHANGED <<dispatcherVars, committeeVars, processVars, retrieval,
               ledgerResults>>

PipelineNext ==
  \/ verifyTaskStarts
  \/ downloadSettles
  \/ splitSettles
  \/ vmafSettles
  \/ specsSettles
  \/ submitSettles
  \/ sendSettles
  \/ secondSendSettles

\* The verification of one task, from the hand-over to its end.
PipelineSpec == Init /\ [][PipelineNext]_vars

\* ----------------------------------------------------- the end-to-end run
\* The task of the GOP test script with the markers shortened to two
\* decimals: six keyframe markers, three of them selected.
EndToEndTask ==
  [task_id |-> "t1", source_ipfs |-> "Qm-source", result_ipfs |-> "Qm-result",
   selected_gops |-> Defined(<<"0", "2.27", "5.13">>),
   keyframe_timestamps |->
     Defined(<<"0", "1.2", "2.27", "3.47", "5.13", "9.13">>)]

\* that task is verified, where the media tool leaves every segment and the
\* VMAF tool gives one of the three scores
endToEndStarts ==
  /\ pc = "idle"
  /\ BeginVerifyTask(EndToEndTask, EndToEndWorld)

EndToEndNext ==
  \/ endToEndStarts
  \/ downloadSettles
  \/ splitSettles
  \/ vmafSettles
  \/ specsSettles
  \/ submitSettles
  \/ sendSettles
  \/ secondSendSettles

EndToEndSpec == Init /\ [][EndToEndNext]_vars

\* ------------------------------------------------- the run, for its hashes
\* a task of Tasks is verified where a segment file may hold either of two
\* contents
fingerprintStarts ==
  /\ pc = "idle"
  /\ \E t \in Tasks : BeginVerifyTask(t, FingerprintWorld)

FingerprintNext ==
  \/ fingerprintStarts
  \/ downloadSettles
  \/ splitSettles
  \/ vmafSettles
  \/ specsSettles
  \/ submitSettles
  \/ sendSettles
  \/ secondSendSettles

FingerprintSpec == Init /\ [][FingerprintNext]_vars

\* ------------------------------------------- splitVideoIntoGops by itself
\* surroundings in which the directory of the video may hold any segment
\* files once ffmpeg has run (splitVideoIntoGops does not empty it first)
StaleWorld ==
  [bits |-> MantissaBits, segments |-> "any",
   tool |-> {ToolFailed}, bytes |-> {"b1"}]

\* gopAnalyzer.splitVideoIntoGops(videoPath, timestamps) is called with a
\* marker list of any length, the empty one included, and awaits ffmpeg.
splitVideoIntoGopsCalled ==
  /\ pc = "idle"
  /\ \E timestamps \in SeqsUpTo(Markers, MaxSelected) :
       allTimestamps' = timestamps
  /\ world' = StaleWorld
  /\ pc' = "splitAlone"
  /\ UNCHANGED <<taskData, sourceGopMap, resultGopMap, next, gopScores, proof,
                 returned, downloads, fetches, splits, ledgerSubmissions,
                 committeeCalls, files, vmafCalls>>
  /\ UNCHANGED <<dispatcherVars, committeeVars, processVars, retrieval,
               ledgerResults>>

\* ffmpeg settles: its failure is rethrown, otherwise the map is built
\* from the segment files found and returned.
splitVideoIntoGopsSettles ==
  /\ pc = "splitAlone"
  /\ \/ /\ returned' = "thrown"
        /\ UNCHANGED <<sourceGopMap, files>>
     \/ \E existing \in SegmentSets(world, allTimestamps) :
          /\ files' = files \cup {Segment("source", n) : n \in existing}
          /\ sourceGopMap' = splitVideoIntoGops(allTimestamps, existing)
          /\ returned' = "map"
  /\ pc' = "done"
  /\ UNCHANGED <<taskData, allTimestamps, resultGopMap, next, gopScores, proof,
                 downloads, fetches, splits, ledgerSubmissions, committeeCalls,
                 vmafCalls, world>>
  /\ UNCHANGED <<dispatcherVars, committeeVars, processVars, retrieval,
               ledgerResults>>

SplitNext == splitVideoIntoGopsCalled \/ splitVideoIntoGopsSettles

SplitSpec == Init /\ [][SplitNext]_vars

\* ------------------------------------------- IpfsService.downloadFile alone
\* downloadFile(cid, fileName) up to its first await: the path of a file
\* that exists is returned at once, otherwise the content is requested
\* from the store.
downloadFileCalled ==
  /\ pc = "idle"
  /\ retrieval.st # "fetching"
  /\ downloads < MaxDownloads
  /\ \E cid \in Cids : \E name \in FileNames :
       IF Cached(files, name)
       THEN /\ retrieval' = [retrieval EXCEPT !.st = "returned", !.cid = cid,
                                              !.name = name, !.path = name]
            /\ UNCHANGED fetches
       ELSE /\ retrieval' = [retrieval EXCEPT !.st = "fetching", !.cid = cid,
                                              !.name = name, !.path = ""]
            /\ fetches' = fetches + 1
  /\ downloads' = downloads + 1
  /\ UNCHANGED <<pc, taskData, allTimestamps, sourceGopMap, resultGopMap, next,
                 gopScores, proof, returned, splits, ledgerSubmissions,
                 committeeCalls, files, vmafCalls, world, ledgerResults>>
  /\ UNCHANGED <<dispatcherVars, committeeVars, processVars>>

\* the request settles: a response that is not ok and a failed request
\* throw, otherwise the body is written to the file and its path returned
downloadFileSettles ==
  /\ retrieval.st = "fetching"
  /\ \E ok \in BOOLEAN :
       IF ok
       THEN /\ files' = files \cup {Asset(retrieval.name)}
            /\ retrieval' =
                 [retrieval EXCEPT !.st = "returned", !.path = retrieval.name,
                                   !.holds[retrieval.name] = retrieval.cid]
       ELSE /\ retrieval' = [retrieval EXCEPT !.st = "thrown"]
            /\ UNCHANGED files
  /\ UNCHANGED <<pc, taskData, allTimestamps, sourceGopMap, resultGopMap, next,
                 gopScores, proof, returned, downloads, splits,
                 ledgerSubmissions, committeeCalls, fetches, vmafCalls, world,
                 ledgerResults>>
  /\ UNCHANGED <<dispatcherVars, committeeVars, processVars>>

\* cleanupFile(filePath): the file is removed when it exists
cleanupFile ==
  /\ pc = "idle"
  /\ retrieval.st # "fetching"
  /\ \E name \in FileNames :
       /\ Cached(files, name)
       /\ files' = files \ {Asset(name)}
       /\ retrieval' = [retrieval EXCEPT !.holds[name] = ""]
  /\ UNCHANGED <<pc, taskData, allTimestamps, sourceGopMap, resultGopMap, next,
                 gopScores, proof, returned, downloads, splits,
                 ledgerSubmissions, committeeCalls, fetches, vmafCalls, world,
                 ledgerResults>>
  /\ UNCHANGED <<dispatcherVars, committeeVars, processVars>>

DownloadNext == downloadFileCalled \/ downloadFileSettles \/ cleanupFile

DownloadSpec == Init /\ [][DownloadNext]_vars

\* ------------------------------------------------------ the process: main
\* How the initialize() of a component can settle.  NearConnection: the
\* key store throws when the credential file is missing, the connection
\* can fail; both are caught and give false.  IpfsService: the version
\* request can fail, which gives false.  CommitteeClient: its member
\* update catches every error, so it gives true.
InitOutcomes(component) ==
  IF component = "initNear" THEN {"ok", "no_credentials", "unreachable"}
  ELSE IF component = "initIpfs" THEN {"ok", "unreachable"}
  ELSE {"ok"}

\* Mutant of mainExits: main goes on whatever initialize() returned.
mainNeverExits(initResult) == FALSE

\* main: if (!initResult) { ...; process.exit(1); }
mainExits(initResult) == ~initResult

\* process.exit(code): nothing of the process runs afterwards
ProcessExit(code) ==
  /\ mainPc' = "exited"
  /\ exitCode' = code

\* main resumed by the result of verifierService.initialize(): it exits,
\* or it calls start(), which runs to the fetch of its poll.
MainResumes(initResult) ==
  IF mainExits(initResult)
  THEN /\ ProcessExit("1")
       /\ UNCHANGED dispatcherVars
  ELSE /\ mainPc' = "started"
       /\ UNCHANGED exitCode
       /\ StartService

\* `if (!result) return false` after the initialize() of a component, and
\* the next component's initialize() otherwise
InitializeStep(component, following) ==
  /\ \E outcome \in InitOutcomes(component) :
       /\ initialized' =
            Append(initialized, [component |-> component, outcome |-> outcome])
       /\ IF outcome = "ok"
          THEN /\ mainPc' = following
               /\ UNCHANGED <<exitCode, dispatcherVars>>
          ELSE MainResumes(FALSE)
  /\ UNCHANGED <<committeeVars, pipelineVars>>

\* nearConnection.initialize() settles
nearInitializeSettles ==
  /\ mainPc = "initNear"
  /\ InitializeStep("initNear", "initIpfs")

\* ipfsService.initialize() settles
ipfsInitializeSettles ==
  /\ mainPc = "initIpfs"
  /\ InitializeStep("initIpfs", "initCommittee")

\* committeeClient.initialize() settles: the member list is installed,
\* initialize() returns true and main goes on.
committeeInitializeSettles ==
  /\ mainPc = "initCommittee"
  /\ \E outcome \in InitOutcomes("initCommittee") :
       /\ initialized' =
            Append(initialized,
                   [component |-> "initCommittee", outcome |-> outcome])
       /\ MainResumes(outcome = "ok")
  /\ RefreshMembers
  /\ UNCHANGED <<broadcastVars, queryVars, retryCall, pipelineVars>>

\* main is past `await verifierService.start()` and the process has not
\* exited: the timers and the suspended calls of the service can go on
Started == mainPc = "started"

\* process.on("SIGINT" | "SIGTERM") is registered once start() has
\* resolved, which is when it has stored its timer.
HandlersRegistered == Started /\ pollingTimer # NoTimer

\* the handler of SIGINT or SIGTERM: await verifierService.stop();
\* process.exit(0)
signalHandler ==
  /\ HandlersRegistered
  /\ StopService
  /\ ProcessExit("0")
  /\ UNCHANGED <<initialized, committeeVars, pipelineVars>>

\* the handlers of the service, in the process that runs it
mainIntervalCallback == Started /\ intervalCallback
mainPollTasksResume == Started /\ pollTasksResume
mainProcessNextTaskResumes == Started /\ processNextTaskResumes
mainTimeoutCallback == Started /\ timeoutCallback

ProcessNext ==
  \/ nearInitializeSettles
  \/ ipfsInitializeSettles
  \/ committeeInitializeSettles
  \/ mainIntervalCallback
  \/ mainPollTasksResume
  \/ mainProcessNextTaskResumes
  \/ mainTimeoutCallback
  \/ signalHandler

\* The process from the construction of the service to its exit.
ProcessSpec == Init /\ [][ProcessNext]_vars

\* The same machine with the scheduling the runtime guarantees: a pending
\* fetch settles, an awaited pipeline call settles (every run terminates),
\* and a timeout of 0 ms fires.
FairSpec ==
  /\ Spec
  /\ WF_vars(pollTasksResume)
  /\ WF_vars(processNextTaskResumes)
  /\ WF_vars(timeoutCallback)

\* ------------------------------------------------------------ properties

Busy == activeRuns # {}
RunStarts == lastOp' \in {"poll_started_run", "timeout_started_run"}
RunEnds == lastOp' = "run_ended"
PollArrives ==
  lastOp' \in {"tick_poll", "tick_skipped", "start_poll", "start_poll_skipped"}

\* C1: single-flight.  At most one pipeline run is executing at any time,
\* and a timer tick or a poll that arrives while a run is in flight starts
\* no run and leaves no pending invocation (no suspended poll, no scheduled
\* continuation) behind.
C1_SingleFlight ==
  /\ [](Cardinality(activeRuns) <= 1)
  /\ [][(Busy /\ PollArrives) =>
          /\ activeRuns' = activeRuns
          /\ pendingPolls' = pendingPolls
          /\ pendingTimeouts' = pendingTimeouts]_vars

\* C1 witness: a tick was skipped during a run that a poll started while a
\* deferred continuation was outstanding.
C1_Witness ==
  /\ Cardinality(activeRuns) = 1
  /\ lastOp = "tick_skipped"
  /\ pendingTimeouts > 0

\* C2: a popped task is consumed once.  Once popped, a task id is not added
\* to the queue again while its run is in flight: the id of the task in
\* flight is never in the queue.  (This is the claim's first clause; an entry
\* that breaks it is the second run the claim's other clause excludes, pushed
\* by a fetch issued before the first run ended.)
C2_ConsumedOnce ==
  \A r \in activeRuns : r.task_id \notin QueueIds(taskQueue)

\* C3: the queue never holds two entries with the same id, and a merge keeps
\* the entries already queued in place and appends, in fetch order, exactly
\* the fetched ids that were not queued, once each.  (The entry a poll pops
\* in the same step counts as the head of the merged queue.)
Merged == (IF RunStarts
           THEN <<CHOOSE r \in activeRuns' : r \notin activeRuns>>
           ELSE <<>>)
            \o taskQueue'
FirstAt(f, id) == CHOOSE i \in 1 .. Len(f) : f[i] = id /\ \A j \in 1 .. i - 1 : f[j] # id
NoDuplicates(q) == \A i, j \in 1 .. Len(q) : q[i].task_id = q[j].task_id => i = j
C3_EnqueueDedup ==
  /\ [](NoDuplicates(taskQueue))
  /\ [][lastOp' \in {"poll_merged", "poll_started_run"} =>
          LET old == Len(taskQueue)
              new == {Merged[i].task_id : i \in old + 1 .. Len(Merged)}
          IN  /\ Len(Merged) >= old
              /\ \A i \in 1 .. old : Merged[i].task_id = taskQueue[i].task_id
              /\ new = Range(lastFetched') \ QueueIds(taskQueue)
              /\ NoDuplicates(Merged)
              /\ \A i, j \in old + 1 .. Len(Merged) :
                   i < j => FirstAt(lastFetched', Merged[i].task_id)
                              < FirstAt(lastFetched', Merged[j].task_id)]_vars

\* C3 witness: a fetch returning the same id twice was merged into a
\* non-empty queue and added that id once, at the tail.
C3_Witness ==
  /\ lastOp = "poll_merged"
  /\ Len(lastFetched) = 2 /\ lastFetched[1] = lastFetched[2]
  /\ Len(taskQueue) = 2
  /\ taskQueue[2].task_id = lastFetched[1]

\* C4: a poll invoked while a task is in flight issues no fetch and leaves
\* the queue and the busy flag unchanged.
C4_PollWhileBusyNoOp ==
  [][(isProcessingTask /\ PollArrives) =>
       /\ fetchCount' = fetchCount
       /\ pendingPolls' = pendingPolls
       /\ taskQueue' = taskQueue
       /\ isProcessingTask' = isProcessingTask]_vars

\* C4 witness: start() called pollTasks during a run, and it returned at
\* once.
C4_Witness ==
  /\ lastOp = "start_poll_skipped"
  /\ isProcessingTask
  /\ fetchCount < MaxFetches

\* C5: FIFO.  The queue is in arrival order (entry i is the i-th oldest),
\* every run is of the entry that was the oldest one queued when it was
\* popped, and a run starts only when no other run is executing.
C5_Fifo ==
  /\ [](/\ \A i \in 1 .. Len(taskQueue) : taskQueue[i].ord = i
        /\ \A r \in activeRuns : r.ord = 1)
  /\ [][RunStarts => activeRuns = {}]_vars

\* C5 witness: with two tasks queued behind it the first run ended, and the
\* continuation popped the older of the two.
C5_Witness ==
  /\ lastOp = "timeout_started_run"
  /\ \E r \in activeRuns : r.task_id = 2 /\ r.ord = 1
  /\ Len(taskQueue) = 1 /\ taskQueue[1].task_id = 1

\* C6: whatever the outcome of a run, the step that ends it clears the busy
\* flag, puts nothing back on the queue, and schedules the continuation that
\* runs the next queued task.
C6_AnyOutcomeBackToIdle ==
  [][RunEnds =>
       /\ lastOutcome' \in RunOutcomes
       /\ ~isProcessingTask'
       /\ activeRuns' = {}
       /\ taskQueue' = taskQueue
       /\ (taskQueue # <<>> => pendingTimeouts' = pendingTimeouts + 1)]_vars

\* C6 witness: a run ended by an exception left the dispatcher idle with the
\* next task queued and its continuation scheduled.
C6_Witness ==
  /\ lastOutcome = "exception"
  /\ ~isProcessingTask
  /\ taskQueue # <<>>
  /\ pendingTimeouts > 0

\* C7: whenever the dispatcher is idle with a non-empty queue a deferred
\* continuation is pending; the step that ends a run starts none; and every
\* task that is queued is eventually run: an entry leaves the queue only by
\* being popped into a run, and the queue is empty again and again.
C7_QueuedEventuallyRun ==
  /\ []((~isProcessingTask /\ taskQueue # <<>>) => pendingTimeouts > 0)
  /\ [][RunEnds => ~RunStarts /\ ~isProcessingTask']_vars
  /\ [][\A i \in 1 .. Len(taskQueue) :
            (\A j \in 1 .. Len(taskQueue') : taskQueue'[j].task_id # taskQueue[i].task_id)
              => \E r \in activeRuns' : r.task_id = taskQueue[i].task_id]_vars
  /\ []<>(taskQueue = <<>>)

\* C7 witness: between two runs, with the next task queued and its
\* continuation pending, a timer-driven poll was issued.
C7_Witness ==
  /\ lastOp = "tick_poll"
  /\ ~isProcessingTask
  /\ taskQueue # <<>>
  /\ pendingTimeouts > 0
  /\ lastOutcome = "none"

Fulfilled(m) == ops[m].st = "fulfilled"

\* C8: quorum-of-one.  When submitProof has returned, it returned true if
\* and only if at least one member answered 202 during the call, and
\* successCount is the number of members that did (between 1 and N when it
\* returned true).
C8_QuorumOfOne ==
  (callState = "returned" /\ callKind = "proof") =>
    /\ callResult <=> (acked # {})
    /\ successCount = Cardinality(acked)
    /\ callResult => successCount \in 1 .. Len(committeeMembers)

\* C8 witness: four members, three answered 202 and one timed out on its
\* last attempt: true with successCount = 3.
C8_Witness ==
  /\ callState = "returned" /\ callKind = "proof"
  /\ Len(committeeMembers) = 4
  /\ callResult /\ successCount = 3
  /\ \E m \in DOMAIN ops : ~ops[m].value /\ ops[m].last = "timeout"

\* C9: join-all fan-out, for the three broadcast methods.  An operation is
\* started for every member of the cached list; a step of one member's
\* operation changes no other member's operation; and the call returns only
\* when every operation has settled, by success or by using up its own
\* retries, with successCount counted over all of them.
C9_JoinAll ==
  /\ [](callState \in {"running", "returned"} =>
          /\ DOMAIN ops = Range(committeeMembers)
          /\ \A m \in DOMAIN ops : ops[m].attempts >= 1)
  /\ [](callState = "returned" =>
          /\ \A m \in DOMAIN ops :
               /\ Fulfilled(m)
               /\ ~ops[m].value =>
                    \/ callKind = "batch" /\ ops[m].attempts = 1
                    \/ callKind # "batch" /\ ops[m].attempts = MaxRetriesOf(callKind)
          /\ successCount = Cardinality({m \in DOMAIN ops : ops[m].value}))
  /\ [][callState = "running" =>
          /\ Cardinality({m \in DOMAIN ops : ops'[m] # ops[m]}) <= 1
          /\ DOMAIN ops' = DOMAIN ops]_vars

\* C9 witness: a call returned in which one member had acknowledged at its
\* first attempt and another member went on to use up its three attempts.
C9_Witness ==
  /\ callState = "returned" /\ callKind = "supplementary"
  /\ \E m \in DOMAIN ops : ops[m].value /\ ops[m].attempts = 1
  /\ \E m \in DOMAIN ops : ~ops[m].value /\ ops[m].attempts = SuppMaxRetries

\* C10: the attempts of submitProof.  Each member gets 1 or 2 requests; a
\* request answered 202 settles the member's operation as a success and no
\* further request goes to that member; any other outcome is a failed
\* attempt, followed by a retry while fewer than 2 attempts have failed and
\* by the member counting as failed once 2 have; all of it in terms of the
\* member's own outcomes only.
C10_ProofAttempts ==
  /\ []((callKind = "proof" /\ callState \in {"running", "returned"}) =>
          \A m \in DOMAIN ops :
            /\ ops[m].attempts \in 1 .. 2
            /\ ops[m].st = "posting" => ops[m].attempts = ops[m].retries + 1
            /\ ops[m].st = "waiting" => ops[m].attempts = ops[m].retries
                                         /\ ops[m].retries < 2
            /\ (Fulfilled(m) /\ ops[m].value) =>
                 m \in acked /\ ops[m].attempts = ops[m].retries + 1
            /\ (Fulfilled(m) /\ ~ops[m].value) =>
                 m \notin acked /\ ops[m].attempts = 2 /\ ops[m].retries = 2)
  /\ [][(callKind = "proof" /\ callState = "running") =>
          \A m \in DOMAIN ops :
            /\ m \in acked => ops'[m] = ops[m]
            /\ (ops[m].st = "posting" /\ ops'[m] # ops[m]) =>
                 IF m \in acked'
                 THEN ops'[m].st = "fulfilled" /\ ops'[m].value
                      /\ ops'[m].attempts = ops[m].attempts
                 ELSE /\ ops'[m].retries = ops[m].retries + 1
                      /\ ops'[m].attempts = ops[m].attempts
                      /\ ops'[m].st = IF ops'[m].retries < 2 THEN "waiting"
                                      ELSE "fulfilled"
                      /\ ~ops'[m].value]_vars

\* C10 witness: in one call a member was acknowledged at its first attempt,
\* another at its second, and a third failed both attempts.
C10_Witness ==
  /\ callState = "returned" /\ callKind = "proof"
  /\ \E m \in DOMAIN ops : ops[m].value /\ ops[m].attempts = 1
  /\ \E m \in DOMAIN ops : ops[m].value /\ ops[m].attempts = 2
  /\ \E m \in DOMAIN ops : ~ops[m].value /\ ops[m].attempts = 2

\* C11: submitSupplementaryProof.  Every member is sent requests on its
\* /proof/{taskId}/supplementary endpoint; a member gets 1 to 3 requests,
\* none after its first 202, and counts as failed only after 3; the call
\* returns true if and only if at least one member answered 202.
C11_Supplementary ==
  /\ []((callKind = "supplementary" /\ callState \in {"running", "returned"}) =>
          /\ DOMAIN ops = Range(committeeMembers)
          /\ \A m \in DOMAIN ops :
               /\ ops[m].path = "/proof/{taskId}/supplementary"
               /\ ops[m].attempts \in 1 .. 3
               /\ (Fulfilled(m) /\ ops[m].value) => m \in acked
               /\ (Fulfilled(m) /\ ~ops[m].value) =>
                    m \notin acked /\ ops[m].attempts = 3
          /\ callState = "returned" =>
               /\ callResult <=> (acked # {})
               /\ successCount = Cardinality(acked))
  /\ [][(callKind = "supplementary" /\ callState = "running") =>
          \A m \in acked : ops'[m] = ops[m]]_vars

\* C11 witness: a supplementary call returned true on the strength of one
\* member that answered 202 at its third request, the others having failed
\* three times each.
C11_Witness ==
  /\ callState = "returned" /\ callKind = "supplementary"
  /\ callResult /\ successCount = 1
  /\ \E m \in acked : ops[m].attempts = 3
  /\ \A m \in DOMAIN ops : ops[m].attempts = 3

\* C12: submitProofsBatch.  Each member is sent exactly one request, on
\* /proofs/batch, and none after it whatever the answer; the call returns
\* true if and only if at least one member answered 202.
C12_BatchNoRetry ==
  (callKind = "batch" /\ callState \in {"running", "returned"}) =>
    /\ DOMAIN ops = Range(committeeMembers)
    /\ \A m \in DOMAIN ops :
         /\ ops[m].path = "/proofs/batch"
         /\ ops[m].attempts = 1
         /\ ops[m].st \in {"posting", "fulfilled"}
         /\ Fulfilled(m) => (ops[m].value <=> m \in acked)
    /\ callState = "returned" =>
         /\ callResult <=> (acked # {})
         /\ successCount = Cardinality(acked)

\* C12 witness: a batch call returned true with one acknowledgement, the
\* requests to the other members having failed in different ways, each
\* after its single request.
C12_Witness ==
  /\ callState = "returned" /\ callKind = "batch"
  /\ callResult /\ successCount = 1
  /\ \E m \in DOMAIN ops : ops[m].last = "error"
  /\ \E m \in DOMAIN ops : ops[m].last = "200"
  /\ \E m \in DOMAIN ops : ops[m].last = "timeout"

\* the GETs of the same pass as the i-th that went to member m before it
AskedBefore(i, m) ==
  Cardinality({j \in 1 .. (i - 1) :
                 queried[j].pass = queried[i].pass /\ queried[j].member = m})
IndexOf(seq, x) == CHOOSE i \in 1 .. Len(seq) : seq[i] = x
HasPayload == queryResult.kind = "status"

\* C13: queryStatus reads leader first.  The first member asked is the one
\* flagged as leader; whenever a follower is asked, the leader has been asked
\* its 2 times in that pass, so have the followers before it in the cached
\* list, and none of the followers after it has been asked; whenever the
\* leader is asked, no follower has been asked yet in that pass; and once a
\* member has returned a status no further GET is issued.
C13_LeaderFirst ==
  /\ [](\A i \in 1 .. Len(queried) :
          LET m == queried[i].member
              followers == Followers(committeeMembers)
          IN
          /\ i = 1 => is_leader(m)
          /\ is_leader(m) =>
               \A f \in Range(followers) : AskedBefore(i, f) = 0
          /\ ~is_leader(m) =>
               /\ \A l \in Range(Leaders(committeeMembers)) :
                    AskedBefore(i, l) = StatusMaxRetries
               /\ \A f \in Range(followers) :
                    /\ IndexOf(followers, f) < IndexOf(followers, m) =>
                         AskedBefore(i, f) = StatusMaxRetries
                    /\ IndexOf(followers, f) > IndexOf(followers, m) =>
                         AskedBefore(i, f) = 0)
  /\ [][(HasPayload /\ queryResult' = queryResult) => queried' = queried]_vars

\* C13 witness: the call returned the status of the second follower, having
\* asked the leader twice, the first follower twice, and then the second.
C13_Witness ==
  /\ statusQuery.st = "returned"
  /\ queryResult = [kind |-> "status", from |-> "follower2"]
  /\ [i \in 1 .. Len(queried) |-> queried[i].member] =
       <<"leader", "leader", "follower1", "follower1", "follower2">>

\* C14: leader fallback.  A GET answered 200 with a body ends the call with
\* the payload of the member that answered, which is the member asked last:
\* when the leader's requests have failed, that is the first follower in
\* cached order to answer so, never an empty result and never the payload of
\* a follower behind it.
C14_LeaderFallback ==
  /\ (statusQuery.st \in QueryRunning \cup {"returned"} /\ statusQuery.last = "200+body") =>
       /\ statusQuery.st = "returned"
       /\ queryResult = [kind |-> "status", from |-> queried[Len(queried)].member]
  /\ HasPayload =>
       /\ statusQuery.st = "returned" /\ statusQuery.last = "200+body"
       /\ queryResult.from = PassOrder(committeeMembers)[statusQuery.pos]
       /\ \A k \in 1 .. (statusQuery.pos - 1) :
            AskedBefore(Len(queried), PassOrder(committeeMembers)[k]) = StatusMaxRetries

\* C14 witness: in the second pass, after every request of the first pass
\* and the leader's two of the second had failed, the first follower
\* answered 200 with a body on its second request, and its payload was
\* returned.
C14_Witness ==
  /\ statusQuery.st = "returned"
  /\ queryResult = [kind |-> "status", from |-> "follower1"]
  /\ queried[Len(queried)].pass = 2
  /\ AskedBefore(Len(queried), "leader") = 2
  /\ AskedBefore(Len(queried), "follower1") = 1

\* C15: when no request of the call was answered with a status (the leader
\* and every follower failed all their attempts, in every pass), queryStatus
\* returns null; it never throws.
C15_AbsenceNotFault ==
  /\ queryResult.kind # "thrown"
  /\ (statusQuery.st = "returned" /\ statusQuery.last # "200+body") =>
       /\ queryResult.kind = "null"
       /\ \A m \in Range(committeeMembers), p \in 1 .. QueryMaxRetries :
            Cardinality({j \in 1 .. Len(queried) :
                           queried[j].pass = p /\ queried[j].member = m})
              = StatusMaxRetries

\* C15 witness: the call returned null after its last request, to the last
\* follower in the second pass, timed out.
C15_Witness ==
  /\ statusQuery.st = "returned"
  /\ queryResult.kind = "null"
  /\ statusQuery.last = "timeout"
  /\ queried[Len(queried)] = [member |-> "follower3", pass |-> 2]

\* C16: the member list is refreshed on demand, at most once per interval.
\* The list is installed only by a step of a call, and then only if the
\* interval or more has passed since it was last installed or the list is
\* empty; a call that finds a non-empty list younger than the interval keeps
\* it; an empty list is installed by the next call whatever its age; and in
\* every other step the list stays as it is.
C16_RefreshOncePerInterval ==
  /\ [][lastRefresh' = "installed" =>
          /\ ~Fresh(membersAge) \/ committeeMembers = <<>>
          /\ membersAge' = 0]_vars
  /\ [][lastRefresh' = "kept" =>
          /\ Fresh(membersAge) /\ committeeMembers # <<>>
          /\ committeeMembers' = committeeMembers
          /\ membersAge' = membersAge]_vars
  /\ [][lastRefresh' = "none" => committeeMembers' = committeeMembers]_vars
  /\ [][(committeeMembers = <<>> /\ lastRefresh' # "none") =>
          lastRefresh' = "installed"]_vars
  /\ [][(callState' = "running" /\ callState # "running") =>
          lastRefresh' # "none"]_vars
  /\ [](\A age \in AgePoints :
          updateCommitteeMembers(<<>>, Fresh(age)) = FixedMembers)

\* C16 witness: the second pass of a status query installed the list again,
\* the interval having run out since the first pass.
C16_Witness ==
  /\ lastRefresh = "installed"
  /\ statusQuery.st = "get"
  /\ statusQuery.outerRetries = 1
  /\ membersAge = 0

\* ------------------------------------------------- Claims on verifyTask

\* the task of the run lacks a locator or a selected set, or the set is empty
LacksInput(t) ==
  \/ t.source_ipfs = ""
  \/ t.result_ipfs = ""
  \/ ~t.selected_gops.present
  \/ t.selected_gops.items = <<>>

\* C17: a task whose selected set is empty, or that lacks its source
\* locator, its result locator or its selected set, fails before any
\* download: nothing is fetched, no segment is extracted, no proof goes to
\* the ledger, no call goes to the committee, and no proof is reported.
C17_FailsBeforeDownload ==
  (pc # "idle" /\ LacksInput(taskData)) =>
    /\ pc = "done"
    /\ returned = "null"
    /\ downloads = 0
    /\ splits = 0
    /\ ledgerSubmissions = <<>>
    /\ committeeCalls = <<>>
    /\ proof = NoProof

C17_Witness ==
  /\ pc = "done"
  /\ taskData # NoTask
  /\ taskData.source_ipfs # ""
  /\ taskData.result_ipfs # ""
  /\ taskData.selected_gops = Defined(<<>>)
  /\ returned = "null"
  /\ downloads = 0

\* the proofs handed to the ledger or to the committee so far
ProofsSent ==
  Range(ledgerSubmissions) \cup {committeeCalls[i].proof : i \in DOMAIN committeeCalls}

\* C18: every proof submitted to the ledger or sent to the committee has
\* a non-empty gop_scores; a task none of whose selected markers was
\* scored yields no proof, no ledger submission and no committee call.
C18_ScoresNonEmpty ==
  /\ \A p \in ProofsSent : Len(p.gop_scores) > 0
  /\ gopScores = <<>> =>
       /\ proof = NoProof
       /\ ledgerSubmissions = <<>>
       /\ committeeCalls = <<>>
       /\ returned # "proof"

\* both videos were split, segments exist on both sides, and still no
\* selected marker had a segment on both: the task ended without a proof
C18_Witness ==
  /\ pc = "done"
  /\ splits = 2
  /\ DOMAIN sourceGopMap # {}
  /\ DOMAIN resultGopMap # {}
  /\ gopScores = <<>>
  /\ returned = "null"

\* the markers of a score list, in its order
TimestampsOf(scores) == [i \in DOMAIN scores |-> scores[i].timestamp]

\* the marker has a segment of the source video and one of the result video
OnBothSides(marker) ==
  marker \in DOMAIN sourceGopMap /\ marker \in DOMAIN resultGopMap

\* the selected markers with a segment on both sides, in selected order
ScorableSelected == SelectSeq(taskData.selected_gops.items, OnBothSides)

\* the scoring loop pushes its last entry: no selected marker is left
LastScorePushed ==
  /\ pc = "vmaf"
  /\ Len(gopScores') = Len(gopScores) + 1
  /\ pc' # "vmaf"

\* C19: the gop_scores of a proof has one entry for each selected marker
\* with a segment on both sides, in the order of selected_gops, and none
\* for a marker missing on either side (a marker selected twice counts
\* once per occurrence); a score list with at least one entry, complete
\* or not, goes on to the proof.
C19_PartialScoring ==
  /\ [](proof # NoProof =>
          /\ TimestampsOf(proof.gop_scores) = ScorableSelected
          /\ proof.gop_scores = gopScores)
  /\ [][LastScorePushed => (pc' = "specs" /\ returned' = "none")]_vars
  /\ [][(pc = "specs" /\ pc' # "done") =>
          (proof' # NoProof /\ proof'.gop_scores = gopScores)]_vars

\* a proof was returned with fewer entries than selected markers
C19_Witness ==
  /\ returned = "proof"
  /\ Len(proof.gop_scores) >= 1
  /\ Len(proof.gop_scores) < Len(taskData.selected_gops.items)
  /\ \E i \in DOMAIN taskData.selected_gops.items :
       ~OnBothSides(taskData.selected_gops.items[i])

\* The exact value of a Number, as an integer multiple of 2^-(2 * MantissaBits)
Exact(x) == x.m * Pow2(x.e + 2 * MantissaBits)

RECURSIVE ExactSum(_, _)
ExactSum(scores, i) ==
  IF i > Len(scores) THEN 0
  ELSE Exact(scores[i].vmaf_score) + ExactSum(scores, i + 1)

RECURSIVE ExactAbsSum(_, _)
ExactAbsSum(scores, i) ==
  IF i > Len(scores) THEN 0
  ELSE Abs(Exact(scores[i].vmaf_score)) + ExactAbsSum(scores, i + 1)

\* the score list taken in the order perm
Reordered(scores, perm) == [i \in DOMAIN scores |-> scores[perm[i]]]

WithinThousandths(x, lo, hi) ==
  IF x.e >= 0
  THEN lo <= 1000 * x.m * Pow2(x.e) /\ 1000 * x.m * Pow2(x.e) <= hi
  ELSE lo * Pow2(0 - x.e) <= 1000 * x.m /\ 1000 * x.m <= hi * Pow2(0 - x.e)

\* the values calculateVmafScore returned, in the order of the calls
ScorerReturned == [i \in DOMAIN vmafCalls |-> vmafCalls[i].returned]

\* the scorer returned 92.0, 95.0, 97.0 for the three selected markers of
\* the end-to-end task and a proof was built
EndToEndScored ==
  /\ taskData = EndToEndTask
  /\ proof # NoProof
  /\ ScorerReturned = <<RoundTo(ScenarioBits, 92, 1, 0),
                        RoundTo(ScenarioBits, 95, 1, 0),
                        RoundTo(ScenarioBits, 97, 1, 0)>>

\* C21: in the end-to-end run (six markers, three selected, every segment
\* extracted, the scorer returning 92.0, 95.0, 97.0) the proof has exactly
\* three sample scores and its overall score is 94.667 within 0.001, the
\* mean of the values the scorer returned.
C21_EndToEndScore ==
  EndToEndScored =>
    /\ Len(proof.gop_scores) = 3
    /\ WithinThousandths(proof.video_score, 94666, 94668)

\* what the run gives instead: three sample scores of 82, 85, 87 and the
\* overall score 84.667
C21_Divergence ==
  /\ EndToEndScored
  /\ Len(proof.gop_scores) = 3
  /\ WithinThousandths(proof.video_score, 84666, 84668)

\* ------------------------------------------------------------------ C22
\* splitVideoIntoGops has been called for the source video, or for both
SplitCalled == splits >= 1

\* C22: the marker list handed to splitVideoIntoGops, the same for both
\* videos, contains every marker of keyframe_timestamps and every marker of
\* selected_gops, those keyframe_timestamps omits included (they follow the
\* declared ones); without keyframe_timestamps it is selected_gops.
C22_MarkerList ==
  SplitCalled =>
    /\ Range(taskData.selected_gops.items) \subseteq Range(allTimestamps)
    /\ IF taskData.keyframe_timestamps.present
       THEN LET declared == taskData.keyframe_timestamps.items IN
            /\ Len(declared) <= Len(allTimestamps)
            /\ SubSeq(allTimestamps, 1, Len(declared)) = declared
       ELSE allTimestamps = taskData.selected_gops.items
    /\ DOMAIN sourceGopMap \subseteq Range(allTimestamps)
    /\ DOMAIN resultGopMap \subseteq Range(allTimestamps)

\* both videos were split by a list that has a selected marker the
\* declared ones lack
C22_Witness ==
  /\ splits = 2
  /\ pc = "vmaf"
  /\ taskData.keyframe_timestamps.present
  /\ \E i \in DOMAIN taskData.selected_gops.items :
       /\ taskData.selected_gops.items[i]
            \notin Range(taskData.keyframe_timestamps.items)
       /\ taskData.selected_gops.items[i] \in DOMAIN resultGopMap

\* ------------------------------------------------------------------ C23
\* splitVideoIntoGops, called by itself, returned its map
MapReturned == pc = "done" /\ returned = "map"

\* C23: for a marker list of at least one marker, every key of the map
\* splitVideoIntoGops returns is a marker of the list, a marker has at most
\* one segment, no segment file is entered under two markers, and every
\* key maps to a segment file that exists.
C23_SplitMap ==
  (MapReturned /\ Len(allTimestamps) >= 1) =>
    /\ DOMAIN sourceGopMap \subseteq Range(allTimestamps)
    /\ \A k1, k2 \in DOMAIN sourceGopMap :
         sourceGopMap[k1] = sourceGopMap[k2] => k1 = k2
    /\ \A k \in DOMAIN sourceGopMap :
         Segment("source", sourceGopMap[k]) \in files

\* a map of two markers was returned while a segment file is missing
C23_Witness ==
  /\ MapReturned
  /\ Cardinality(DOMAIN sourceGopMap) = 2
  /\ \E n \in 0 .. Len(allTimestamps) : Segment("source", n) \notin files

\* ------------------------------------------------------------------ C24
\* C24: splitVideoIntoGops with no marker returns an empty map, whatever
\* segment files ffmpeg leaves.
C24_EmptyMarkers ==
  (MapReturned /\ Len(allTimestamps) = 0) => DOMAIN sourceGopMap = {}

\* what the call gives instead when segment_0 exists: one entry, under the
\* key undefined
C24_Divergence ==
  /\ MapReturned
  /\ Len(allTimestamps) = 0
  /\ DOMAIN sourceGopMap = {"undefined"}

\* ------------------------------------------------------------------ C25
\* the run of verifyTask is over, with a proof or without
RunOver == pc = "done" /\ returned \in {"proof", "null"}

\* C25: at the end of every run of a task, whatever its outcome, the
\* downloaded videos and all extracted segments are deleted.
C25_CleanedUp == RunOver => files = {}

\* what a failed run leaves: both downloaded videos and segment files
C25_Divergence ==
  /\ RunOver
  /\ returned = "null"
  /\ {Asset("source"), Asset("result")} \subseteq files
  /\ \E f \in files : f.kind = "segment"

\* ------------------------------------------------------------------ C26
\* calculateVmafScore settles in this step after the VMAF tool failed, and
\* the result segment can be read
ToolFailureSettles ==
  /\ Len(vmafCalls') = Len(vmafCalls) + 1
  /\ ~vmafCalls'[Len(vmafCalls')].ran
  /\ vmafCalls'[Len(vmafCalls')].bytes # "none"

\* C26: when the VMAF tool fails calculateVmafScore returns 0 and does not
\* throw; the run is not aborted, the marker still gets its entry (the
\* returned 0, stored 10 lower), and the loop goes on to the next marker or
\* to the proof.
C26_ToolFailureScoresZero ==
  /\ [](\A i \in DOMAIN vmafCalls :
          ~vmafCalls[i].ran =>
            (~vmafCalls[i].thrown /\ vmafCalls[i].returned = Zero))
  /\ [][ToolFailureSettles =>
          /\ gopScores' =
               Append(gopScores,
                      [timestamp |-> taskData.selected_gops.items[next],
                       vmaf_score |-> NumberSub(Zero, FromInteger(Ten)),
                       hash |-> gopScores'[Len(gopScores')].hash])
          /\ returned' = "none"
          /\ pc' \in {"vmaf", "specs"}]_vars

\* a proof was returned whose first marker met a failure of the tool and
\* whose second was scored by it
C26_Witness ==
  /\ returned = "proof"
  /\ Len(vmafCalls) >= 2
  /\ ~vmafCalls[1].ran
  /\ vmafCalls[2].ran
  /\ Len(proof.gop_scores) = Len(vmafCalls)

\* ------------------------------------------------------------------ C27
\* the run ended without a proof at a download: a request to the content
\* store failed
FailedAtDownload ==
  RunOver /\ returned = "null" /\ downloads >= 1 /\ splits = 0

\* the run ended without a proof at the ledger: submitVerifierProof gave
\* false
FailedAtLedger ==
  RunOver /\ returned = "null" /\ Len(ledgerSubmissions) >= 1

\* C27: a failed request to the content store or to the ledger is retried
\* at the call site, so a run that ends without a proof because of one has
\* sent the request more than once.
C27_RetriedAtCallSite ==
  /\ FailedAtDownload => fetches > downloads
  /\ FailedAtLedger => Len(ledgerSubmissions) > 1

\* what the run does instead: one failed request to the ledger ends it
C27_Divergence == FailedAtLedger /\ Len(ledgerSubmissions) = 1

\* ------------------------------------------------------------------ C28
\* an initialize() of a component gave false
InitFailed ==
  \E i \in DOMAIN initialized : initialized[i].outcome # "ok"

\* the service was never started: no poll, no timer, no run
NeverStarted ==
  /\ ~running
  /\ startCount = 0
  /\ fetchCount = 0
  /\ pendingPolls = EmptyBag
  /\ activeTimers = 0
  /\ pollingTimer = NoTimer
  /\ activeRuns = {}
  /\ pendingTimeouts = 0
  /\ taskQueue = <<>>

\* C28: when the credential file is missing or a component fails to
\* initialize, initialize() returns false at that component: no later
\* component is initialized, the service is never started (no poll, no
\* timer, no run) and the process exits with code 1.
C28_InitFailureAborts ==
  InitFailed =>
    /\ initialized[Len(initialized)].outcome # "ok"
    /\ \A i \in 1 .. Len(initialized) - 1 : initialized[i].outcome = "ok"
    /\ committeeMembers = <<>>
    /\ NeverStarted
    /\ mainPc = "exited"
    /\ exitCode = "1"

\* the ledger connection was made and the content store did not answer
C28_Witness ==
  /\ Len(initialized) = 2
  /\ initialized[1] = [component |-> "initNear", outcome |-> "ok"]
  /\ initialized[2].outcome = "unreachable"
  /\ exitCode = "1"

\* the credential file is missing and the process has exited
C28_WitnessCredentials ==
  /\ initialized = <<[component |-> "initNear", outcome |-> "no_credentials"]>>
  /\ exitCode = "1"

\* ------------------------------------------------------------------ C30
\* stop() ran in this step
StopCalled == lastOp' = "stop" /\ lastOp # "stop"

\* C30: stop() only cancels the polling timer: it leaves the queue and the
\* busy flag as they are, and a run in flight when stop() is called goes
\* on to its completion or failure, so no run is cut off.
C30_NoMidTaskCancellation ==
  /\ [][StopCalled =>
          /\ taskQueue' = taskQueue
          /\ isProcessingTask' = isProcessingTask
          /\ activeRuns' = activeRuns]_vars
  /\ [](exitCode # "none" => activeRuns = {})

\* what the handler of a signal gives: stop() has left the run in flight,
\* and process.exit(0) has ended it with the process
C30_Divergence ==
  /\ lastOp = "stop"
  /\ exitCode = "0"
  /\ isProcessingTask
  /\ activeRuns # {}

\* ------------------------------------------------------------------ C29
\* The entry pushed by the i-th call of calculateVmafScore: a run ends at
\* the first call that pushes none, so entry i belongs to call i.
EntryOfCall(i) == gopScores[i]

\* C29: the hash of an entry is a function of the bytes of the result
\* segment of its marker alone: it was read from that segment, it is a
\* SHA-256 hex digest, and two entries whose segments hold the same bytes
\* have the same hash, whatever their source segments, scores and markers.
C29_HashOfBytesOnly ==
  \A i, j \in DOMAIN gopScores :
    /\ vmafCalls[i].segment = resultGopMap[EntryOfCall(i).timestamp]
    /\ EntryOfCall(i).hash.alg = "sha256"
    /\ vmafCalls[i].bytes = vmafCalls[j].bytes =>
         EntryOfCall(i).hash = EntryOfCall(j).hash

\* a proof with two entries of different markers, segments and scores whose
\* result segments hold the same bytes
C29_Witness ==
  /\ returned = "proof"
  /\ \E i, j \in DOMAIN gopScores :
       /\ gopScores[i].timestamp # gopScores[j].timestamp
       /\ vmafCalls[i].segment # vmafCalls[j].segment
       /\ gopScores[i].vmaf_score # gopScores[j].vmaf_score
       /\ vmafCalls[i].bytes = vmafCalls[j].bytes
       /\ gopScores[i].hash = gopScores[j].hash

\* ------------------------------------------------------------------ C31
\* the body b is the projection of the proof p
ProjectionOf(b, p) ==
  /\ b.taskId = p.task_id
  /\ b.verifierId = p.verifier_id
  /\ b.timestamp = p.timestamp
  /\ b.mediaSpecs = p.video_specs
  /\ b.signature = p.signature
  /\ b.videoQualityData.overallScore = p.video_score
  /\ Len(b.videoQualityData.gopScores) = Len(p.gop_scores)
  /\ \A i \in DOMAIN p.gop_scores :
       /\ b.videoQualityData.gopScores[i].timestamp = p.gop_scores[i].timestamp
       /\ b.videoQualityData.gopScores[i].vmafScore = p.gop_scores[i].vmaf_score
       /\ b.videoQualityData.gopScores[i].hash = p.gop_scores[i].hash

\* C31: the body posted to a member is the projection of the proof the
\* call was handed: taskId, verifierId, timestamp, mediaSpecs, signature
\* and overallScore are the proof's, gopScores has the proof's entries in
\* their order; every member of the fan-out is posted the same body.
C31_BodyIsProjection ==
  (callKind \in {"proof", "supplementary"} /\ DOMAIN posts # {}) =>
    /\ DOMAIN posts = DOMAIN ops
    /\ \A m \in DOMAIN posts : ProjectionOf(posts[m], sent)
    /\ \A m1, m2 \in DOMAIN posts : posts[m1] = posts[m2]

\* the proof of two GOP scores is being posted to the four members, one of
\* them for the second time
C31_Witness ==
  /\ callKind = "proof"
  /\ callState = "running"
  /\ Cardinality(DOMAIN posts) = 4
  /\ Len(sent.gop_scores) = 2
  /\ \E m \in DOMAIN ops : ops[m].st = "posting" /\ ops[m].attempts = 2

\* ------------------------------------------------------------------ C32
\* the time of a marker, in tenths of a second
Tenths(marker) == IF marker = "0" THEN 0 ELSE 12

\* the list is ordered ascending and has no marker twice
AscendingDistinct(list) ==
  \A i, j \in DOMAIN list : i < j => Tenths(list[i]) < Tenths(list[j])

\* C32: when keyframe_timestamps is ordered ascending and distinct, the
\* list handed to splitVideoIntoGops is ordered ascending and distinct as
\* well, also when selected markers had to be added to it.
C32_MarkerListAscending ==
  (/\ SplitCalled
   /\ taskData.keyframe_timestamps.present
   /\ AscendingDistinct(taskData.keyframe_timestamps.items)) =>
    AscendingDistinct(allTimestamps)

\* what the run hands over instead: the declared marker 1.2 followed by
\* the selected marker 0 that was pushed
C32_Divergence ==
  /\ SplitCalled
  /\ taskData.keyframe_timestamps = Defined(<<"1.2">>)
  /\ allTimestamps = <<"1.2", "0">>

\* ------------------------------------------------------------------ C33
Max(a, b) == IF a > b THEN a ELSE b

\* the invocations of the operation so far
Invocations == Len(retryCall.outcomes)

\* withRetry without the order of its waits: the count of invocations, the
\* return at the first success, the rethrow with no wait after the last
\* failure, the first wait and the growth of the later ones, their bound
RetryContract ==
  LET r == retryCall IN
  /\ r.st # "idle" => Invocations + (IF r.st = "operation" THEN 1 ELSE 0) >= 1
  /\ Invocations + (IF r.st = "operation" THEN 1 ELSE 0)
       <= Max(1, r.maxRetries)
  /\ \A i \in 1 .. Invocations - 1 : ~r.outcomes[i]
  /\ r.st = "returned" <=> (Invocations >= 1 /\ r.outcomes[Invocations])
  /\ r.st = "thrown" =>
       /\ Invocations = Max(1, r.maxRetries)
       /\ Len(r.waits) = Invocations - 1
  /\ Len(r.waits) >= 1 => r.waits[1] = r.initialDelay
  /\ \A i \in 1 .. Len(r.waits) - 1 :
       2 * r.waits[i + 1] =
         (IF 3 * r.waits[i] < 60000 THEN 3 * r.waits[i] ELSE 60000)
  /\ \A i \in 1 .. Len(r.waits) : r.waits[i] <= Max(r.initialDelay, 30000)

\* the waits of the call never get shorter
WaitsNonDecreasing ==
  \A i \in 1 .. Len(retryCall.waits) - 1 :
    retryCall.waits[i] <= retryCall.waits[i + 1]

RetrievalBegins == pc = "idle" /\ downloads' = downloads + 1

\* C34: the local asset cache is keyed by the file name, not by the content
\* identifier.  A downloadFile(cid, name) call that finds a file called
\* name in the working directory sends no request to the content store and
\* returns the path of that file, whatever cid is; a call that finds none
\* sends one request; and a file is only ever written by a call that found
\* no file of its name, with the content that call asked for.
C34_CacheKeyedByName ==
  /\ [][RetrievalBegins =>
          IF Asset(retrieval'.name) \in files
          THEN /\ fetches' = fetches
               /\ files' = files
               /\ retrieval'.st = "returned"
               /\ retrieval'.path = retrieval'.name
               /\ retrieval'.holds = retrieval.holds
          ELSE /\ fetches' = fetches + 1
               /\ retrieval'.st = "fetching"]_vars
  /\ [][(pc = "idle" /\ ~(files' \subseteq files)) =>
          /\ retrieval.st = "fetching"
          /\ Asset(retrieval.name) \notin files
          /\ files' = files \cup {Asset(retrieval.name)}
          /\ retrieval'.holds[retrieval.name] = retrieval.cid]_vars

\* a second call asked for another content under the name of a file that
\* was there: it returned that file, and the store saw one request only
C34_Witness ==
  /\ retrieval.st = "returned"
  /\ downloads = 2
  /\ fetches = 1
  /\ retrieval.holds[retrieval.name] # ""
  /\ retrieval.holds[retrieval.name] # retrieval.cid


\* ---------------------------------------------------------------- C35
\* C35: within a task run the ledger submission comes before every committee
\* request.  The run submits to the ledger at most once; a proof is handed
\* to the committee only after the ledger accepted that very proof; and
\* when the ledger rejected it or the submission failed, the run reports no
\* proof and no broadcast call was made.
C35_LedgerBeforeCommittee ==
  /\ Len(ledgerSubmissions) <= 1
  /\ Len(ledgerResults) <= Len(ledgerSubmissions)
  /\ committeeCalls # <<>> =>
       /\ ledgerResults = <<"accepted">>
       /\ \A i \in DOMAIN committeeCalls :
            committeeCalls[i].proof = ledgerSubmissions[1]
  /\ (ledgerResults # <<>> /\ ledgerResults[1] # "accepted") =>
       /\ committeeCalls = <<>>
       /\ returned = "null"
       /\ pc = "done"

\* the ledger rejected the proof of a run, which ended without a proof
C35_Witness ==
  /\ pc = "done"
  /\ ledgerSubmissions # <<>>
  /\ ledgerResults = <<"rejected">>
  /\ returned = "null"


\* ---------------------------------------------------------------- C36
\* the broadcast calls of the run that were made for the given proof
CallsFor(p) == {i \in DOMAIN committeeCalls : committeeCalls[i].proof = p}

\* C36: a task run that produces a proof makes exactly one broadcast call
\* for it, the supplementary one when the task's role flag is supplemental
\* and the regular one when it is primary: no proof is broadcast twice, and
\* a proof sent by the supplementary call is not posted by the regular call
\* as well.
C36_OneBroadcastPerProof ==
  /\ \A i \in DOMAIN committeeCalls :
       Cardinality(CallsFor(committeeCalls[i].proof)) = 1
  /\ (pc = "done" /\ returned = "proof") =>
       Cardinality(CallsFor(proof)) = 1

\* what a supplemental run does instead: verifyTask has sent the proof by
\* the regular call and processNextTask the same proof by the supplementary
\* one
C36_Divergence ==
  /\ pc = "done"
  /\ returned = "proof"
  /\ committeeCalls = <<[kind |-> "proof", proof |-> proof],
                        [kind |-> "supplementary", proof |-> proof]>>


\* ---------------------------------------------------------------- C37
\* a poll is resumed by a fetch that failed
FailedPoll == lastOutcome' = "fetch_failed" /\ pendingPolls' # pendingPolls

\* C37 as stated: a poll whose fetch from the ledger fails adds no task to
\* the queue and removes none, leaves the busy flag as it is, and leaves
\* the polling on.
C37_FailedFetchChangesNothing ==
  [][FailedPoll =>
       /\ taskQueue' = taskQueue
       /\ isProcessingTask' = isProcessingTask
       /\ running' = running
       /\ activeTimers' >= activeTimers]_vars

\* C37, amended: a poll whose fetch from the ledger fails does what a poll
\* with an empty fetch does.  It adds no task to the queue; when a task is
\* queued and none is in flight it starts the run of one queued task, which
\* leaves the queue and sets the busy flag; otherwise the queue, the busy
\* flag and the runs are unchanged; and the polling stays on.
C37_FailedFetchLikeEmpty ==
  [][FailedPoll =>
       /\ QueueIds(taskQueue') \subseteq QueueIds(taskQueue)
       /\ IF taskQueue # <<>> /\ ~isProcessingTask
          THEN /\ isProcessingTask'
               /\ Len(taskQueue') = Len(taskQueue) - 1
               /\ Cardinality(activeRuns') = Cardinality(activeRuns) + 1
               /\ \E r \in activeRuns' \ activeRuns :
                    /\ r.task_id \in QueueIds(taskQueue)
                    /\ r.task_id \notin QueueIds(taskQueue')
          ELSE /\ taskQueue' = taskQueue
               /\ isProcessingTask' = isProcessingTask
               /\ activeRuns' = activeRuns
       /\ running' = running
       /\ pendingTimeouts' = pendingTimeouts
       /\ activeTimers' >= activeTimers]_vars

\* a poll whose fetch failed has found a task queued and none in flight,
\* and has started its run
C37_Witness ==
  /\ lastOutcome = "fetch_failed"
  /\ lastOp = "poll_started_run"
  /\ isProcessingTask
  /\ activeRuns # {}


\* ---------------------------------------------------------------- C38
\* C38: under any interleaving of start() and stop() calls, a call made
\* while an earlier start() awaits its first poll included, at most one
\* polling timer is active, a polling timer is active only while the
\* running flag is true, and no timer-driven poll begins once stop() has
\* returned and no start() has followed.
C38_TimerDiscipline ==
  /\ activeTimers <= 1
  /\ activeTimers > 0 => running
  /\ lastOp = "tick_poll" => running

\* what stop() during the first poll of start() gives: start() installs
\* its timer after stop() has returned, and a tick polls with the running
\* flag false
C38_Divergence ==
  /\ ~running
  /\ activeTimers = 1
  /\ pollingTimer = Timer
  /\ lastOp = "tick_poll"

\* and two timers are active after start(); stop(); start(), both first
\* polls settling afterwards
C38_DivergenceTwoTimers == activeTimers = 2 /\ running


\* ---------------------------------------------------------------- C39
\* the GET requests of the getTaskStatus call sent to member m, in pass n
RequestsTo(m) == {i \in DOMAIN queried : queried[i].member = m}
RequestsInPass(m, n) == {i \in RequestsTo(m) : queried[i].pass = n}

\* C39: getTaskStatus sends a bounded number of requests.  With N members
\* in the list, one call sends a member at most 2 GETs in a pass, makes at
\* most 2 passes, so at most 4 GETs to any member and 4N in all; and once a
\* member has answered with a status the call has returned it, the answered
\* request being the last one sent.
C39_BoundedStatusRequests ==
  /\ \A i \in DOMAIN queried :
       /\ queried[i].pass \in 1 .. 2
       /\ Cardinality(RequestsInPass(queried[i].member, queried[i].pass)) <= 2
       /\ Cardinality(RequestsTo(queried[i].member)) <= 4
       /\ \E k \in DOMAIN committeeMembers :
            committeeMembers[k] = queried[i].member
  /\ Len(queried) <= 4 * Len(committeeMembers)
  /\ queryResult.kind = "status" =>
       /\ statusQuery.st = "returned"
       /\ queried # <<>>
       /\ queried[Len(queried)].member = queryResult.from

\* every member was asked four times and the call gave up with null
C39_Witness ==
  /\ queryResult = getTaskStatusFails
  /\ committeeMembers # <<>>
  /\ Len(queried) = 4 * Len(committeeMembers)
  /\ \A k \in DOMAIN committeeMembers :
       Cardinality(RequestsTo(committeeMembers[k])) = 4


\* ---------------------------------------------------------------- C40
\* C40: the three broadcast calls never throw to their caller.  A call ends
\* by returning a boolean; one that sent no request (the conversion of its
\* argument failed, or the member list was empty) has returned false, and
\* so has one whose every member operation failed.
C40_BroadcastNeverThrows ==
  /\ callState \in {"idle", "running", "returned"}
  /\ callResult \in BOOLEAN
  /\ (callState = "returned" /\ DOMAIN ops = {}) => ~callResult
  /\ (callState = "returned" /\ \A m \in DOMAIN ops : ~ops[m].value) =>
       ~callResult
  /\ (callKind # "none" /\ ArgumentThrows(callKind, sent)) =>
       /\ callState = "returned"
       /\ DOMAIN ops = {}
       /\ DOMAIN posts = {}

\* a batch with a malformed proof was handed over: the call has returned
\* false and no member was sent anything
C40_Witness ==
  /\ callKind = "batch"
  /\ ArgumentThrows(callKind, sent)
  /\ callState = "returned"
  /\ ~callResult
  /\ DOMAIN ops = {}
  /\ committeeMembers # <<>>

\* every member operation of a supplementary call has failed after its
\* retries, and the call has returned false
C40_WitnessAllFailed ==
  /\ callKind = "supplementary"
  /\ callState = "returned"
  /\ ~callResult
  /\ DOMAIN ops # {}
  /\ \A m \in DOMAIN ops : ops[m].st = "fulfilled" /\ ~ops[m].value

====
